---- MODULE Spec2Model ----
(***************************************************************************)
(* Model of the football value-finder's prediction engine                  *)
(* (netlify/functions/api.js and its earlier revisions).                   *)
(*                                                                         *)
(* JavaScript numbers are modelled as decimal floating-point values        *)
(* <<m, e>> (value m * 10^e) with a six-digit mantissa, every operation    *)
(* truncating toward zero.  NaN, null and undefined are separate values.   *)
(***************************************************************************)
EXTENDS Integers, Sequences, FiniteSets, TLC

\* "const v = x; return F(v)": x is evaluated once, before F is entered
Bind(x, F(_)) == CHOOSE r \in {F(v) : v \in {x}} : TRUE

\* "for (i = lo; i <= hi; i++) acc = Step(acc, i)": the value of acc after the
\* loop, the iterations taken in order (the range is split, its first half
\* run to completion before the second starts)
RECURSIVE ForLoop(_, _, _, _)
ForLoop(Step(_, _), acc, lo, hi) ==
    IF lo < hi
    THEN CHOOSE r \in {ForLoop(Step, a, (lo + hi) \div 2 + 1, hi) :
                           a \in {ForLoop(Step, acc, lo, (lo + hi) \div 2)}} : TRUE
    ELSE IF lo = hi THEN Step(acc, lo) ELSE acc

\* ------------------------------------------------------------------------
\* JavaScript numbers
\* ------------------------------------------------------------------------
Base == 10 * 10 * 10
MantMax == Base * Base       \* a normalised mantissa m has MantMax \div 10 <= |m| < MantMax
MantMin == MantMax \div 10

Zero == <<0, 0>>
NaN == <<0, 1>>
Null == <<0, 2>>
Undefined == <<0, 3>>

IsFinite(x) == x[1] # 0 \/ x = Zero

AbsInt(i) == IF i < 0 THEN -i ELSE i
SignInt(i) == IF i < 0 THEN -1 ELSE IF i > 0 THEN 1 ELSE 0
TDiv(a, b) == IF a >= 0 THEN a \div b ELSE -((-a) \div b)

RECURSIVE Pow10(_)
Pow10(k) == IF k <= 0 THEN 1 ELSE 10 * Pow10(k - 1)

RECURSIVE Norm(_, _)
Norm(m, e) ==
    IF m = 0 THEN Zero
    ELSE IF AbsInt(m) >= MantMax THEN Norm(TDiv(m, 10), e + 1)
    ELSE IF AbsInt(m) < MantMin THEN Norm(m * 10, e - 1)
    ELSE <<m, e>>

FromInt(i) == Norm(i, 0)
Dec(m, e) == Norm(m, e)
One == FromInt(1)

Neg(x) == IF IsFinite(x) THEN <<-x[1], x[2]>> ELSE NaN

\* a + b, the operand of smaller exponent shifted with three guard digits
AddFinite(a, b) ==
    LET hi == IF a[2] >= b[2] THEN a ELSE b
        lo == IF a[2] >= b[2] THEN b ELSE a
        d == hi[2] - lo[2]
        k == IF d < 3 THEN d ELSE 3
    IN  IF d - k > 9 THEN hi
        ELSE Norm(hi[1] * Pow10(k) + TDiv(lo[1], Pow10(d - k)), hi[2] - k)

\* the operands of the arithmetic below are evaluated before the operation is
\* entered, as JavaScript evaluates them: each operation is a function of the pair
Numbers == Int \X Int
Pairs == Numbers \X Numbers

AddOf[p \in Pairs] ==
    IF ~IsFinite(p[1]) \/ ~IsFinite(p[2]) THEN NaN
    ELSE IF p[1] = Zero THEN p[2]
    ELSE IF p[2] = Zero THEN p[1]
    ELSE AddFinite(p[1], p[2])

Add(a, b) == AddOf[<<a, b>>]

Sub(a, b) == Add(a, Neg(b))

MulFinite(a, b) ==
    LET s == SignInt(a[1]) * SignInt(b[1])
        ma == AbsInt(a[1])
        mb == AbsInt(b[1])
        a1 == ma \div Base
        a0 == ma % Base
        b1 == mb \div Base
        b0 == mb % Base
        low == a0 * b0
        t == a1 * b0 + a0 * b1 + (low \div Base)
        q6 == a1 * b1 + (t \div Base)
        rem6 == (t % Base) * Base + (low % Base)
        e == a[2] + b[2]
    IN  IF q6 >= MantMin THEN <<s * q6, e + 6>>
        ELSE <<s * (q6 * 10 + (rem6 \div MantMin)), e + 5>>

MulOf[p \in Pairs] ==
    IF ~IsFinite(p[1]) \/ ~IsFinite(p[2]) THEN NaN
    ELSE IF p[1] = Zero \/ p[2] = Zero THEN Zero
    ELSE MulFinite(p[1], p[2])

Mul(a, b) == MulOf[<<a, b>>]

DivFinite(a, b) ==
    LET s == SignInt(a[1]) * SignInt(b[1])
        ma == AbsInt(a[1])
        mb == AbsInt(b[1])
        x1 == ma * Base
        q1 == x1 \div mb
        x2 == (x1 % mb) * Base
        q2 == x2 \div mb
    IN  Norm(s * (q1 * Base + q2), a[2] - b[2] - 6)

\* x / 0 is not finite in JavaScript (0 / 0 is NaN, x / 0 is +-Infinity);
\* both are carried as NaN, the one non-finite number of the model.
DivOf[p \in Pairs] ==
    IF ~IsFinite(p[1]) \/ ~IsFinite(p[2]) THEN NaN
    ELSE IF p[2] = Zero THEN NaN
    ELSE IF p[1] = Zero THEN Zero
    ELSE DivFinite(p[1], p[2])

Div(a, b) == DivOf[<<a, b>>]

Sign(x) == SignInt(x[1])
Lt(a, b) == IsFinite(a) /\ IsFinite(b) /\ Sign(Sub(a, b)) < 0
Gt(a, b) == Lt(b, a)
Le(a, b) == IsFinite(a) /\ IsFinite(b) /\ Sign(Sub(a, b)) <= 0
Ge(a, b) == Le(b, a)

Abs(x) == IF IsFinite(x) THEN <<AbsInt(x[1]), x[2]>> ELSE NaN
\* Math.max / Math.min return NaN when an argument is NaN
Max(a, b) == IF ~IsFinite(a) \/ ~IsFinite(b) THEN NaN ELSE IF Lt(a, b) THEN b ELSE a
Min(a, b) == IF ~IsFinite(a) \/ ~IsFinite(b) THEN NaN ELSE IF Lt(b, a) THEN b ELSE a

\* Math.pow(x, k) for an integer k >= 0; Math.pow(0, 0) is 1
Pow(x, k) == ForLoop(LAMBDA r, i : Mul(r, x), One, 1, k)

\* parseFloat(x.toFixed(d)): x rounded to d decimals, ties away from zero
ToFixed(x, d) ==
    IF ~IsFinite(x) THEN NaN
    ELSE IF x[2] >= -d THEN x
    ELSE LET s == -x[2] - d
             ma == AbsInt(x[1])
         IN  IF s > 7 THEN Zero
             ELSE LET p == Pow10(s)
                      q == ma \div p
                      r == ma % p
                  IN  Norm(SignInt(x[1]) * (IF 2 * r >= p THEN q + 1 ELSE q), -d)

\* ------------------------------------------------------------------------
\* Math.exp(-y) for y >= 0
\* ------------------------------------------------------------------------
FxOne == Base * Base * 10 * 10       \* fixed-point unit of the series below
FxBase == Base * 10

FxMul(a, b) ==
    LET a1 == a \div FxBase
        a0 == a % FxBase
        b1 == b \div FxBase
        b0 == b % FxBase
    IN  a1 * b1 + ((a1 * b0 + a0 * b1 + ((a0 * b0) \div FxBase)) \div FxBase)

\* <<sum_{n = 0..k} (-f)^n / n!, f^k / k!>> from the same pair for k - 1; the
\* terms beyond ExpTerms are below the fixed-point unit
ExpTerms == 12
ExpStep(f, st, k) ==
    <<st[1] + (IF k % 2 = 1 THEN -1 ELSE 1) * (FxMul(st[2], f) \div k), FxMul(st[2], f) \div k>>

ExpSeries(f) == ForLoop(LAMBDA st, k : ExpStep(f, st, k), <<FxOne, FxOne>>, 1, ExpTerms)[1]

\* e^-f for a fixed-point f in [0, 1), as a number no larger than e^-f
ExpFrac(f) == Norm((ExpSeries(f) - 100) \div 100, -6)

EInv1 == Dec(367879, -6)      \* e^-1, truncated

ExpNeg(y) ==
    IF ~IsFinite(y) THEN NaN
    ELSE IF y = Zero THEN One
    ELSE LET m == y[1]
             e == y[2]
             n == IF e >= 0 THEN m * Pow10(e) ELSE IF e < -6 THEN 0 ELSE m \div Pow10(-e)
             fm == IF e >= 0 THEN 0 ELSE IF e < -6 THEN m ELSE m % Pow10(-e)
             f == IF e >= 0 THEN 0
                  ELSE IF e >= -8 THEN fm * Pow10(8 + e)
                  ELSE IF e < -16 THEN 0 ELSE fm \div Pow10(-e - 8)
         IN  Mul(ExpFrac(f), Pow(EInv1, n))


\* ------------------------------------------------------------------------
\* Math helpers (netlify/functions/api.js)
\* ------------------------------------------------------------------------
\* result after the loop "for (i = 2; i <= n; i++) result *= i"
factorialLoop(n) == ForLoop(LAMBDA result, i : Mul(result, FromInt(i)), One, 2, n)

factorial(n) == IF n = 0 \/ n = 1 THEN One ELSE factorialLoop(n)

poisson(k, lambda) == Div(Mul(ExpNeg(lambda), Pow(lambda, k)), factorial(k))

Min3(a, b, c) == Min(Min(a, b), c)

lambda3SafeOf_positive(lambda1, lambda2, lambda3) == Max(Dec(1, -2), Min3(lambda3, lambda1, lambda2))

lambda3SafeOf_uncapped(lambda1, lambda2, lambda3) == Max(Zero, lambda3)

lambda3SafeOf(lambda1, lambda2, lambda3) == Max(Zero, Min3(lambda3, lambda1, lambda2))

\* one term of the sum of the bivariate probability (api.js 57-64)
bivariateTerm(k, homeGoals, awayGoals, lambda1Star, lambda2Star, lambda3Safe) ==
    Mul(Mul(poisson(homeGoals - k, lambda1Star), poisson(awayGoals - k, lambda2Star)),
        poisson(k, lambda3Safe))

bivariateSum_shared(minGoals, homeGoals, awayGoals, lambda1Star, lambda2Star, lambda3Safe) ==
    ForLoop(LAMBDA probability, k :
                Add(probability, bivariateTerm(k, homeGoals, awayGoals, lambda1Star, lambda2Star, lambda3Safe)),
            Zero, 1, minGoals)

bivariateSum(minGoals, homeGoals, awayGoals, lambda1Star, lambda2Star, lambda3Safe) ==
    ForLoop(LAMBDA probability, k :
                Add(probability, bivariateTerm(k, homeGoals, awayGoals, lambda1Star, lambda2Star, lambda3Safe)),
            Zero, 0, minGoals)

\* <<lambda1Star, lambda2Star, lambda3Safe>>, the rates of term1, term2 and term3
residualRates(lambda1, lambda2, lambda3) ==
    Bind(lambda3SafeOf(lambda1, lambda2, lambda3), LAMBDA lambda3Safe :
         <<Sub(lambda1, lambda3Safe), Sub(lambda2, lambda3Safe), lambda3Safe>>)

bivariatePoissonProbability(homeGoals, awayGoals, lambda1, lambda2, lambda3) ==
    Bind(residualRates(lambda1, lambda2, lambda3), LAMBDA rate :
         bivariateSum(IF homeGoals < awayGoals THEN homeGoals ELSE awayGoals, homeGoals, awayGoals,
                      rate[1], rate[2], rate[3]))

estimateLambda3_inclusive(homeExpGoals, awayExpGoals, leagueAvgHome, leagueAvgAway) ==
    LET totalExpected == Add(homeExpGoals, awayExpGoals)
        leagueAvgTotal == Add(leagueAvgHome, leagueAvgAway)
    IN  IF Ge(totalExpected, Mul(leagueAvgTotal, Dec(12, -1)))
        THEN Min3(Dec(15, -2), Mul(homeExpGoals, Dec(8, -2)), Mul(awayExpGoals, Dec(8, -2)))
        ELSE IF Le(totalExpected, Mul(leagueAvgTotal, Dec(8, -1)))
        THEN Dec(-5, -2)
        ELSE Dec(10, -2)

estimateLambda3(homeExpGoals, awayExpGoals, leagueAvgHome, leagueAvgAway) ==
    LET totalExpected == Add(homeExpGoals, awayExpGoals)
        leagueAvgTotal == Add(leagueAvgHome, leagueAvgAway)
    IN  IF Gt(totalExpected, Mul(leagueAvgTotal, Dec(12, -1)))
        THEN Min3(Dec(15, -2), Mul(homeExpGoals, Dec(8, -2)), Mul(awayExpGoals, Dec(8, -2)))
        ELSE IF Lt(totalExpected, Mul(leagueAvgTotal, Dec(8, -1)))
        THEN Dec(-5, -2)
        ELSE Dec(10, -2)

\* x || 1 : a falsy number (0 or NaN) is replaced by 1
OrOne(x) == IF x = Zero \/ ~IsFinite(x) THEN One ELSE x

dixonColesAdjustment_lopsided(homeGoals, awayGoals, lambdaHome, lambdaAway, rho) ==
    IF homeGoals > 1 \/ awayGoals > 1 THEN One
    ELSE LET adjustments ==
                 [h \in 0..1 |-> [a \in 0..1 |->
                     IF h = 0 /\ a = 0 THEN Sub(One, Mul(Mul(lambdaHome, lambdaAway), rho))
                     ELSE IF h = 0 /\ a = 1 THEN One
                     ELSE IF h = 1 /\ a = 0 THEN Add(One, Mul(lambdaAway, rho))
                     ELSE Sub(One, rho)]]
         IN  OrOne(adjustments[homeGoals][awayGoals])

dixonColesAdjustment_fixedRho(homeGoals, awayGoals, lambdaHome, lambdaAway, rho) ==
    IF homeGoals > 1 \/ awayGoals > 1 THEN One
    ELSE LET adjustments ==
                 [h \in 0..1 |-> [a \in 0..1 |->
                     IF h = 0 /\ a = 0 THEN Sub(One, Mul(Mul(lambdaHome, lambdaAway), Dec(-13, -2)))
                     ELSE IF h = 0 /\ a = 1 THEN Add(One, Mul(lambdaHome, Dec(-13, -2)))
                     ELSE IF h = 1 /\ a = 0 THEN Add(One, Mul(lambdaAway, Dec(-13, -2)))
                     ELSE Sub(One, Dec(-13, -2))]]
         IN  OrOne(adjustments[homeGoals][awayGoals])

dixonColesAdjustment(homeGoals, awayGoals, lambdaHome, lambdaAway, rho) ==
    IF homeGoals > 1 \/ awayGoals > 1 THEN One
    ELSE LET adjustments ==
                 [h \in 0..1 |-> [a \in 0..1 |->
                     IF h = 0 /\ a = 0 THEN Sub(One, Mul(Mul(lambdaHome, lambdaAway), rho))
                     ELSE IF h = 0 /\ a = 1 THEN Add(One, Mul(lambdaHome, rho))
                     ELSE IF h = 1 /\ a = 0 THEN Add(One, Mul(lambdaAway, rho))
                     ELSE Sub(One, rho)]]
         IN  OrOne(adjustments[homeGoals][awayGoals])

margin_wide == Dec(25, -2)

margin == Dec(20, -2)

\* analyzeTGL of the bivariate revision (api.js 109-157)
analyzeTGL_biv(totalExpectedGoals, bookieLine) ==
    LET difference == Sub(totalExpectedGoals, bookieLine)
        absDiff == Abs(difference)
        rating == IF Gt(absDiff, Dec(5, -1)) THEN <<"STRONG VALUE", "High">>
                  ELSE IF Gt(absDiff, Dec(3, -1)) THEN <<"GOOD VALUE", "Medium">>
                  ELSE <<"SLIGHT VALUE", "Low">>
        verdict == IF Gt(totalExpectedGoals, Add(bookieLine, margin)) THEN <<"OVER", rating[1], rating[2]>>
                   ELSE IF Lt(totalExpectedGoals, Sub(bookieLine, margin)) THEN <<"UNDER", rating[1], rating[2]>>
                   ELSE <<"NO BET", "LINE IS ACCURATE", "N/A">>
    IN  [totalExpectedGoals |-> ToFixed(totalExpectedGoals, 2),
         bookieLine |-> bookieLine,
         difference |-> ToFixed(difference, 2),
         recommendation |-> verdict[1],
         valueRating |-> verdict[2],
         confidence |-> verdict[3]]

\* analyzeTGL of the form-regression revision (api.js 732-753)
analyzeTGL(totalExpectedGoals, bookieLine) ==
    LET difference == Sub(totalExpectedGoals, bookieLine)
        absDiff == Abs(difference)
        valueRating == IF Gt(absDiff, Dec(5, -1)) THEN "STRONG VALUE"
                       ELSE IF Gt(absDiff, Dec(3, -1)) THEN "GOOD VALUE" ELSE "SLIGHT VALUE"
        confidence == IF Gt(absDiff, Dec(5, -1)) THEN "High" ELSE "Medium"
        verdict == IF Gt(totalExpectedGoals, Add(bookieLine, margin)) THEN <<"OVER", valueRating, confidence>>
                   ELSE IF Lt(totalExpectedGoals, Sub(bookieLine, margin)) THEN <<"UNDER", valueRating, confidence>>
                   ELSE <<"NO BET", "LINE IS ACCURATE", "N/A">>
    IN  [totalExpectedGoals |-> ToFixed(totalExpectedGoals, 2),
         bookieLine |-> bookieLine,
         difference |-> ToFixed(difference, 2),
         recommendation |-> verdict[1],
         valueRating |-> verdict[2],
         confidence |-> verdict[3]]


maxGoals == 15

\* <<poisson(0, lambda), ..., poisson(n, lambda)>>
poissonTable(n, lambda) == ForLoop(LAMBDA t, k : Append(t, poisson(k, lambda)), <<>>, 0, n)

\* probTotal of one total: sum over h = 0..total of poisson(h) * poisson(total - h)
probTotalLoop(total, pH, pA) ==
    ForLoop(LAMBDA probTotal, h : Add(probTotal, Mul(pH[h + 1], pA[total - h + 1])), Zero, 0, total)

\* <<probTotal of total 0, ..., probTotal of total n>>
probTotals(n, pH, pA) ==
    ForLoop(LAMBDA t, total : Append(t, probTotalLoop(total, pH, pA)), <<>>, 0, n)

goalLineLoop_inclusive(n, over, line, probTotal) ==
    ForLoop(LAMBDA prob, total : IF Ge(FromInt(total), line) = over
                                 THEN Add(prob, probTotal[total + 1]) ELSE prob,
            Zero, 0, n)

\* overProb (over = TRUE) or underProb after the totals 0..n
goalLineLoop(n, over, line, probTotal) ==
    ForLoop(LAMBDA prob, total : IF Gt(FromInt(total), line) = over
                                 THEN Add(prob, probTotal[total + 1]) ELSE prob,
            Zero, 0, n)

goalLineProbabilitiesOf(overProb, underProb) ==
    Bind(<<overProb, underProb>>, LAMBDA p :
         [overProbability |-> ToFixed(Mul(p[1], FromInt(100)), 2),
          underProbability |-> ToFixed(Mul(p[2], FromInt(100)), 2),
          impliedOverOdds |-> IF Gt(p[1], Zero) THEN ToFixed(Div(One, p[1]), 2) ELSE Null,
          impliedUnderOdds |-> IF Gt(p[2], Zero) THEN ToFixed(Div(One, p[2]), 2) ELSE Null])

calculateGoalLineProbabilities(homeExpGoals, awayExpGoals, line) ==
    Bind(<<poissonTable(maxGoals, homeExpGoals), poissonTable(maxGoals, awayExpGoals)>>, LAMBDA p :
    Bind(probTotals(maxGoals, p[1], p[2]), LAMBDA probTotal :
         goalLineProbabilitiesOf(goalLineLoop(maxGoals, TRUE, line, probTotal),
                                 goalLineLoop(maxGoals, FALSE, line, probTotal))))

\* a JavaScript value used as a condition
Truthy(x) == IsFinite(x) /\ x # Zero

bttsMaxK == 10

probHomeZeroLoop(n, homeExpGoals, awayExpGoals, lambda3) ==
    ForLoop(LAMBDA probHomeZero_Biv, k :
                Add(probHomeZero_Biv, bivariatePoissonProbability(0, k, homeExpGoals, awayExpGoals, lambda3)),
            Zero, 0, n)

probAwayZeroLoop(n, homeExpGoals, awayExpGoals, lambda3) ==
    ForLoop(LAMBDA probAwayZero_Biv, k :
                Add(probAwayZero_Biv, bivariatePoissonProbability(k, 0, homeExpGoals, awayExpGoals, lambda3)),
            Zero, 0, n)

\* the bivariate probabilities of analyzeBTTS (api.js 771-779, 204-223)
bttsProbabilities(homeExpGoals, awayExpGoals, lambda3) ==
    Bind([prob_0_0_Biv |-> bivariatePoissonProbability(0, 0, homeExpGoals, awayExpGoals, lambda3),
          probHomeZero_Biv |-> probHomeZeroLoop(bttsMaxK, homeExpGoals, awayExpGoals, lambda3),
          probAwayZero_Biv |-> probAwayZeroLoop(bttsMaxK, homeExpGoals, awayExpGoals, lambda3)], LAMBDA pr :
    Bind(Sub(Add(pr.probHomeZero_Biv, pr.probAwayZero_Biv), pr.prob_0_0_Biv), LAMBDA probAtLeastOneZero_Biv :
         [prob_0_0_Biv |-> pr.prob_0_0_Biv,
          probHomeZero_Biv |-> pr.probHomeZero_Biv,
          probAwayZero_Biv |-> pr.probAwayZero_Biv,
          probBTTS_Yes_Biv |-> Sub(One, probAtLeastOneZero_Biv),
          probBTTS_No_Biv |-> probAtLeastOneZero_Biv]))

\* 1 / p when p > 0, else null
fairOdds(p) == IF Gt(p, Zero) THEN Div(One, p) ELSE Null

\* the value analysis of analyzeBTTS, bivariate revision (api.js 228-263):
\* <<recommendation, valueRating, confidence, expectedValue>>
bttsValue_biv(bookieBTTSOdds, fairOddsBTTS_Yes) ==
    IF Truthy(bookieBTTSOdds) /\ Truthy(fairOddsBTTS_Yes)
    THEN LET valueDiffYes == Sub(bookieBTTSOdds, fairOddsBTTS_Yes)
         IN  IF Gt(valueDiffYes, Dec(30, -2)) THEN <<"BET BTTS YES", "STRONG VALUE", "High", valueDiffYes>>
             ELSE IF Gt(valueDiffYes, Dec(15, -2)) THEN <<"BET BTTS YES", "GOOD VALUE", "Medium", valueDiffYes>>
             ELSE IF Gt(valueDiffYes, Dec(5, -2)) THEN <<"BET BTTS YES", "SLIGHT VALUE", "Low", valueDiffYes>>
             ELSE IF Lt(valueDiffYes, Dec(-20, -2)) THEN <<"CONSIDER BTTS NO", "BOOKIE UNDERPRICING YES", "Medium", valueDiffYes>>
             ELSE <<"NO BET", "NO CLEAR VALUE", "N/A", valueDiffYes>>
    ELSE <<"NO BET", "NO CLEAR VALUE", "N/A", Zero>>

\* the value analysis of analyzeBTTS, form-regression revision (api.js 782-788)
bttsValue(bookieBTTSOdds, fairOddsBTTS_Yes) ==
    IF Truthy(bookieBTTSOdds) /\ Truthy(fairOddsBTTS_Yes)
    THEN LET valueDiffYes == Sub(bookieBTTSOdds, fairOddsBTTS_Yes)
         IN  IF Gt(valueDiffYes, Dec(15, -2)) THEN <<"BET BTTS YES", "GOOD VALUE", "Medium", valueDiffYes>>
             ELSE IF Lt(valueDiffYes, Dec(-20, -2)) THEN <<"CONSIDER BTTS NO", "UNDERPRICED YES", "N/A", valueDiffYes>>
             ELSE <<"NO BET", "NO CLEAR VALUE", "N/A", valueDiffYes>>
    ELSE <<"NO BET", "NO CLEAR VALUE", "N/A", Zero>>

\* the value analysis of analyzeBTTS, independent revision (part_000 159-197)
bttsValue_indep(bookieBTTSOdds, fairOddsBTTS_Yes) ==
    IF Truthy(bookieBTTSOdds) /\ Truthy(fairOddsBTTS_Yes)
    THEN LET valueDiff == Sub(bookieBTTSOdds, fairOddsBTTS_Yes)
         IN  IF Gt(valueDiff, Dec(30, -2)) THEN <<"BET BTTS YES", "STRONG VALUE", "High", valueDiff>>
             ELSE IF Gt(valueDiff, Dec(15, -2)) THEN <<"BET BTTS YES", "GOOD VALUE", "Medium", valueDiff>>
             ELSE IF Gt(valueDiff, Dec(5, -2)) THEN <<"BET BTTS YES", "SLIGHT VALUE", "Low", valueDiff>>
             ELSE IF Lt(valueDiff, Dec(-30, -2)) THEN <<"BET BTTS NO", "STRONG VALUE", "High", valueDiff>>
             ELSE IF Lt(valueDiff, Dec(-15, -2)) THEN <<"BET BTTS NO", "GOOD VALUE", "Medium", valueDiff>>
             ELSE IF Lt(valueDiff, Dec(-5, -2)) THEN <<"BET BTTS NO", "SLIGHT VALUE", "Low", valueDiff>>
             ELSE <<"NO BET", "NO CLEAR VALUE", "N/A", valueDiff>>
    ELSE <<"NO VALUE", "", "", Zero>>

NullOr(x, y) == IF Truthy(x) THEN y ELSE Null

\* the object analyzeBTTS returns, bivariate revision (api.js 265-289)
bttsBody_biv(homeExpGoals, awayExpGoals, lambda3, bookieBTTSOdds, pr, value) ==
    LET probHomeZero_Indep == ExpNeg(homeExpGoals)
        probAwayZero_Indep == ExpNeg(awayExpGoals)
        probZeroZero_Indep == Mul(probHomeZero_Indep, probAwayZero_Indep)
        probAtLeastOneZero_Indep == Sub(Add(probHomeZero_Indep, probAwayZero_Indep), probZeroZero_Indep)
        probBTTS_Yes_Indep == Sub(One, probAtLeastOneZero_Indep)
        fairOddsBTTS_Yes == fairOdds(pr.probBTTS_Yes_Biv)
        fairOddsBTTS_No == fairOdds(pr.probBTTS_No_Biv)
    IN  [probHomeZero |-> ToFixed(Mul(pr.probHomeZero_Biv, FromInt(100)), 2),
         probAwayZero |-> ToFixed(Mul(pr.probAwayZero_Biv, FromInt(100)), 2),
         prob_0_0 |-> ToFixed(Mul(pr.prob_0_0_Biv, FromInt(100)), 2),
         probBTTS_Yes |-> ToFixed(Mul(pr.probBTTS_Yes_Biv, FromInt(100)), 2),
         probBTTS_No |-> ToFixed(Mul(pr.probBTTS_No_Biv, FromInt(100)), 2),
         probBTTS_Yes_Independent |-> ToFixed(Mul(probBTTS_Yes_Indep, FromInt(100)), 2),
         probBTTS_No_Independent |-> ToFixed(Mul(probAtLeastOneZero_Indep, FromInt(100)), 2),
         lambda3 |-> ToFixed(lambda3, 3),
         modelType |-> IF lambda3 # Zero THEN "Bivariate Poisson" ELSE "Independent Poisson",
         fairOddsBTTS_Yes |-> NullOr(fairOddsBTTS_Yes, ToFixed(fairOddsBTTS_Yes, 2)),
         fairOddsBTTS_No |-> NullOr(fairOddsBTTS_No, ToFixed(fairOddsBTTS_No, 2)),
         bookieOddsYes |-> bookieBTTSOdds,
         expectedValue |-> ToFixed(value[4], 2),
         recommendation |-> value[1],
         valueRating |-> value[2],
         confidence |-> value[3]]

\* analyzeBTTS of the bivariate revision (api.js 192-290)
analyzeBTTS_biv(homeExpGoals, awayExpGoals, lambda3, bookieBTTSOdds) ==
    Bind(bttsProbabilities(homeExpGoals, awayExpGoals, lambda3), LAMBDA pr :
         bttsBody_biv(homeExpGoals, awayExpGoals, lambda3, bookieBTTSOdds, pr,
                      bttsValue_biv(bookieBTTSOdds, fairOdds(pr.probBTTS_Yes_Biv))))

\* the object analyzeBTTS returns, form-regression revision (api.js 790)
bttsBody(lambda3, bookieBTTSOdds, pr, value) ==
    LET fairOddsBTTS_Yes == fairOdds(pr.probBTTS_Yes_Biv)
    IN  [probBTTS_Yes |-> ToFixed(Mul(pr.probBTTS_Yes_Biv, FromInt(100)), 2),
         probBTTS_No |-> ToFixed(Mul(pr.probBTTS_No_Biv, FromInt(100)), 2),
         probHomeZero |-> ToFixed(Mul(pr.probHomeZero_Biv, FromInt(100)), 2),
         probAwayZero |-> ToFixed(Mul(pr.probAwayZero_Biv, FromInt(100)), 2),
         lambda3 |-> ToFixed(lambda3, 3),
         modelType |-> IF lambda3 # Zero THEN "Bivariate Poisson" ELSE "Independent Poisson",
         fairOddsBTTS_Yes |-> NullOr(fairOddsBTTS_Yes, ToFixed(fairOddsBTTS_Yes, 2)),
         bookieOddsYes |-> bookieBTTSOdds,
         expectedValue |-> ToFixed(value[4], 2),
         recommendation |-> value[1],
         valueRating |-> value[2],
         confidence |-> value[3]]

\* analyzeBTTS of the form-regression revision (api.js 770-791)
analyzeBTTS(homeExpGoals, awayExpGoals, lambda3, bookieBTTSOdds) ==
    Bind(bttsProbabilities(homeExpGoals, awayExpGoals, lambda3), LAMBDA pr :
         bttsBody(lambda3, bookieBTTSOdds, pr, bttsValue(bookieBTTSOdds, fairOdds(pr.probBTTS_Yes_Biv))))


\* ------------------------------------------------------------------------
\* Form analysis
\* ------------------------------------------------------------------------
RECURSIVE SumInt(_)
SumInt(xs) == IF xs = <<>> THEN 0 ELSE SumInt(SubSeq(xs, 1, Len(xs) - 1)) + xs[Len(xs)]

\* reduce((sum, v) => sum + v, 0) over numbers, left to right
SumNum(xs) == ForLoop(LAMBDA sum, i : Add(sum, xs[i]), Zero, 1, Len(xs))

\* slope, intercept and r2 once the denominator is known to be usable
regressionLine(xValues, yValues, slope) ==
    LET n == Len(xValues)
        sumX == SumInt(xValues)
        sumY == SumInt(yValues)
        intercept == Div(Sub(FromInt(sumY), Mul(slope, FromInt(sumX))), FromInt(n))
        meanY == Div(FromInt(sumY), FromInt(n))
        ssTotal == SumNum([i \in 1..n |-> Pow(Sub(FromInt(yValues[i]), meanY), 2)])
        ssResidual == SumNum([i \in 1..n |->
                          Pow(Sub(FromInt(yValues[i]), Add(Mul(slope, FromInt(xValues[i])), intercept)), 2)])
        r2 == IF ssTotal # Zero THEN Sub(One, Div(ssResidual, ssTotal)) ELSE Zero
    IN  [slope |-> slope, intercept |-> intercept, r2 |-> r2]

\* linearRegression of the form-regression revision (api.js 619-644)
linearRegression(xValues, yValues) ==
    LET n == Len(xValues)
        sumX == SumInt(xValues)
        sumY == SumInt(yValues)
        sumXY == SumInt([i \in 1..n |-> xValues[i] * yValues[i]])
        sumX2 == SumInt([i \in 1..n |-> xValues[i] * xValues[i]])
        denominator == n * sumX2 - sumX * sumX
    IN  IF n = 0 THEN [slope |-> Zero, intercept |-> Zero, r2 |-> Zero]
        ELSE IF denominator = 0
        THEN [slope |-> Zero, intercept |-> Div(FromInt(sumY), FromInt(n)), r2 |-> Zero]
        ELSE regressionLine(xValues, yValues,
                            Div(FromInt(n * sumXY - sumX * sumY), FromInt(denominator)))

\* linearRegression of the earlier revision (part_001 105-128): no guard on
\* the denominator
linearRegression_early(xValues, yValues) ==
    LET n == Len(xValues)
        sumX == SumInt(xValues)
        sumY == SumInt(yValues)
        sumXY == SumInt([i \in 1..n |-> xValues[i] * yValues[i]])
        sumX2 == SumInt([i \in 1..n |-> xValues[i] * xValues[i]])
    IN  IF n = 0 THEN [slope |-> Zero, intercept |-> Zero, r2 |-> Zero]
        ELSE regressionLine(xValues, yValues,
                            Div(FromInt(n * sumXY - sumX * sumY), FromInt(n * sumX2 - sumX * sumX)))

\* [...matchHistory].sort((a, b) => a.match_number - b.match_number): stable
RECURSIVE InsertSorted(_, _)
InsertSorted(sorted, m) ==
    IF sorted = <<>> THEN <<m>>
    ELSE IF sorted[Len(sorted)].match_number <= m.match_number THEN Append(sorted, m)
    ELSE Append(InsertSorted(SubSeq(sorted, 1, Len(sorted) - 1), m), sorted[Len(sorted)])

\* the two entries given last, in the order given
SortByMatchNumber_recent(h) == IF Len(h) <= 2 THEN h ELSE SubSeq(h, Len(h) - 1, Len(h))

RECURSIVE SortByMatchNumber(_)
SortByMatchNumber(h) ==
    IF h = <<>> THEN <<>>
    ELSE InsertSorted(SortByMatchNumber(SubSeq(h, 1, Len(h) - 1)), h[Len(h)])

Avg2(xs) == ToFixed(Div(FromInt(SumInt(xs)), FromInt(Len(xs))), 2)

formOfSlope_unclamped(slope) ==
    LET raw == IF Gt(slope, Dec(25, -2)) THEN <<"improving", Add(One, Mul(slope, Dec(4, -1)))>>
               ELSE IF Lt(slope, Dec(-25, -2)) THEN <<"declining", Add(One, Mul(slope, Dec(4, -1)))>>
               ELSE <<"neutral", One>>
    IN  [trend |-> raw[1], formModifier |-> raw[2]]

formOfSlope_steeper(slope) ==
    LET raw == IF Gt(slope, Dec(25, -2)) THEN <<"improving", Add(One, Mul(slope, Dec(5, -1)))>>
               ELSE IF Lt(slope, Dec(-25, -2)) THEN <<"declining", Add(One, Mul(slope, Dec(5, -1)))>>
               ELSE <<"neutral", One>>
    IN  [trend |-> raw[1], formModifier |-> Max(Dec(80, -2), Min(Dec(120, -2), raw[2]))]

formOfSlope_eager(slope) ==
    LET raw == IF Gt(slope, Dec(15, -2)) THEN <<"improving", Add(One, Mul(slope, Dec(4, -1)))>>
               ELSE IF Lt(slope, Dec(-15, -2)) THEN <<"declining", Add(One, Mul(slope, Dec(4, -1)))>>
               ELSE <<"neutral", One>>
    IN  [trend |-> raw[1], formModifier |-> Max(Dec(80, -2), Min(Dec(120, -2), raw[2]))]

\* trend and unrounded formModifier from the goal-difference slope (api.js 676-689)
formOfSlope(slope) ==
    LET raw == IF Gt(slope, Dec(25, -2)) THEN <<"improving", Add(One, Mul(slope, Dec(4, -1)))>>
               ELSE IF Lt(slope, Dec(-25, -2)) THEN <<"declining", Add(One, Mul(slope, Dec(4, -1)))>>
               ELSE <<"neutral", One>>
    IN  [trend |-> raw[1], formModifier |-> Max(Dec(80, -2), Min(Dec(120, -2), raw[2]))]

\* what analyzeTeamForm returns when !matchHistory || matchHistory.length === 0
\* (api.js 648-655)
emptyForm ==
    [slope |-> Zero, intercept |-> Zero, r2 |-> Zero,
     trend |-> "neutral", formModifier |-> One,
     avgGoalsScored |-> Zero, avgGoalsConceded |-> Zero, avgPoints |-> Zero,
     matchData |-> <<>>, gdSlope |-> Zero, predictedGD |-> Zero]

\* analyzeTeamForm of the form-regression revision (api.js 647-719)
analyzeTeamForm(matchHistory) ==
    IF matchHistory = <<>>
    THEN emptyForm
    ELSE LET sorted == SortByMatchNumber(matchHistory)
             n == Len(sorted)
             xValues == [i \in 1..n |-> sorted[i].match_number]
             goalsScored == [i \in 1..n |-> sorted[i].goals_scored]
             goalsConceded == [i \in 1..n |-> sorted[i].goals_conceded]
             points == [i \in 1..n |-> sorted[i].points]
             goalDiffs == [i \in 1..n |-> sorted[i].goals_scored - sorted[i].goals_conceded]
             goalsRegression == linearRegression(xValues, goalsScored)
             gdRegression == linearRegression(xValues, goalDiffs)
             nextMatchX == n + 1
             predictedGD == Add(Mul(gdRegression.slope, FromInt(nextMatchX)), gdRegression.intercept)
             form == formOfSlope(gdRegression.slope)
         IN  [avgGoalsScored |-> Avg2(goalsScored),
              avgGoalsConceded |-> Avg2(goalsConceded),
              avgPoints |-> Avg2(points),
              slope |-> ToFixed(goalsRegression.slope, 3),
              gdSlope |-> ToFixed(gdRegression.slope, 3),
              gdIntercept |-> ToFixed(gdRegression.intercept, 3),
              predictedGD |-> ToFixed(predictedGD, 2),
              trend |-> form.trend,
              formModifier |-> ToFixed(form.formModifier, 3),
              matchData |-> [i \in 1..n |->
                  [matchNumber |-> sorted[i].match_number,
                   goalsScored |-> sorted[i].goals_scored,
                   goalsConceded |-> sorted[i].goals_conceded,
                   goalDiff |-> sorted[i].goals_scored - sorted[i].goals_conceded,
                   points |-> sorted[i].points,
                   wasHome |-> sorted[i].was_home = 1]]]

\* trend and unrounded formModifier of the earlier revision (part_001 163-176)
formOfSlope_early(slope) ==
    LET raw == IF Gt(slope, Dec(15, -2)) THEN <<"improving", Add(One, Mul(slope, Dec(5, -1)))>>
               ELSE IF Lt(slope, Dec(-15, -2)) THEN <<"declining", Add(One, Mul(slope, Dec(5, -1)))>>
               ELSE <<"neutral", One>>
    IN  [trend |-> raw[1], formModifier |-> Max(Dec(85, -2), Min(Dec(115, -2), raw[2]))]

\* the same in the earlier revision (part_001 132-144)
emptyForm_early ==
    [slope |-> Zero, intercept |-> Zero, r2 |-> Zero,
     trend |-> "neutral", formModifier |-> One,
     avgGoalsScored |-> Zero, avgGoalsConceded |-> Zero, avgPoints |-> Zero,
     matchData |-> <<>>]

\* analyzeTeamForm of the earlier revision (part_001 131-197)
analyzeTeamForm_early(matchHistory) ==
    IF matchHistory = <<>>
    THEN emptyForm_early
    ELSE LET sorted == SortByMatchNumber(matchHistory)
             n == Len(sorted)
             xValues == [i \in 1..n |-> sorted[i].match_number]
             goalsScored == [i \in 1..n |-> sorted[i].goals_scored]
             goalsConceded == [i \in 1..n |-> sorted[i].goals_conceded]
             points == [i \in 1..n |-> sorted[i].points]
             goalsRegression == linearRegression_early(xValues, goalsScored)
             pointsRegression == linearRegression_early(xValues, points)
             form == formOfSlope_early(goalsRegression.slope)
         IN  [slope |-> ToFixed(goalsRegression.slope, 3),
              intercept |-> ToFixed(goalsRegression.intercept, 3),
              r2 |-> ToFixed(goalsRegression.r2, 3),
              pointsSlope |-> ToFixed(pointsRegression.slope, 3),
              trend |-> form.trend,
              formModifier |-> ToFixed(form.formModifier, 3),
              avgGoalsScored |-> Avg2(goalsScored),
              avgGoalsConceded |-> Avg2(goalsConceded),
              avgPoints |-> Avg2(points),
              matchData |-> [i \in 1..n |->
                  [matchNumber |-> sorted[i].match_number,
                   goalsScored |-> sorted[i].goals_scored,
                   goalsConceded |-> sorted[i].goals_conceded,
                   points |-> sorted[i].points,
                   wasHome |-> sorted[i].was_home = 1,
                   predicted |-> ToFixed(Add(Mul(goalsRegression.slope, FromInt(sorted[i].match_number)),
                                             goalsRegression.intercept), 2)]]]


\* ------------------------------------------------------------------------
\* Scoreline grids and the 1X2 accumulators of the predict handlers
\* ------------------------------------------------------------------------
matrixSize == 6
Goals == 0..(matrixSize - 1)

Outcome_tiesHome(h, a) == IF h >= a THEN "home" ELSE "away"

Outcome(h, a) == IF h > a THEN "home" ELSE IF h = a THEN "draw" ELSE "away"

Accumulate_every(matrix, outcome, n) ==
    ForLoop(LAMBDA acc, i : Add(acc, matrix[i \div matrixSize][i % matrixSize].prob), Zero, 0, n - 1)

\* the accumulator of one outcome after the cells 0..n-1, in the order of the
\* double loop (h outer, a inner)
Accumulate(matrix, outcome, n) ==
    ForLoop(LAMBDA acc, i : IF Outcome(i \div matrixSize, i % matrixSize) = outcome
                            THEN Add(acc, matrix[i \div matrixSize][i % matrixSize].prob) ELSE acc,
            Zero, 0, n - 1)

outcomesOf(matrix) ==
    [homeWinProb |-> Accumulate(matrix, "home", matrixSize * matrixSize),
     drawProb |-> Accumulate(matrix, "draw", matrixSize * matrixSize),
     awayWinProb |-> Accumulate(matrix, "away", matrixSize * matrixSize),
     matrix |-> matrix]

\* a grid with its three accumulated outcome probabilities
modelBlock(matrix) == Bind(matrix, outcomesOf)

poissonCells(probHome, probAway) ==
    [h \in Goals |-> [a \in Goals |->
        [h |-> h, a |-> a, prob |-> Mul(probHome[h + 1], probAway[a + 1])]]]

poissonMatrixOf(homeExpGoals, awayExpGoals) ==
    Bind(<<poissonTable(matrixSize - 1, homeExpGoals), poissonTable(matrixSize - 1, awayExpGoals)>>,
         LAMBDA p : poissonCells(p[1], p[2]))

dixonColesCells_biv(probHome, probAway, homeExpGoals, awayExpGoals, rho) ==
    [h \in Goals |-> [a \in Goals |->
        LET adjustment == dixonColesAdjustment(h, a, homeExpGoals, awayExpGoals, rho)
        IN  [h |-> h, a |-> a,
             prob |-> Mul(Mul(probHome[h + 1], probAway[a + 1]), adjustment),
             adjustment |-> adjustment]]]

\* the Dixon-Coles grid of the bivariate revision (api.js 443-484): cells carry the adjustment
dixonColesMatrixOf_biv(homeExpGoals, awayExpGoals, rho) ==
    Bind(<<poissonTable(matrixSize - 1, homeExpGoals), poissonTable(matrixSize - 1, awayExpGoals)>>,
         LAMBDA p : dixonColesCells_biv(p[1], p[2], homeExpGoals, awayExpGoals, rho))

dixonColesCells(probHome, probAway, homeExpGoals, awayExpGoals, rho) ==
    [h \in Goals |-> [a \in Goals |->
        [h |-> h, a |-> a,
         prob |-> Mul(Mul(probHome[h + 1], probAway[a + 1]),
                      dixonColesAdjustment(h, a, homeExpGoals, awayExpGoals, rho))]]]

\* the Dixon-Coles grid of the form-regression revision (api.js 916-931)
dixonColesMatrixOf(homeExpGoals, awayExpGoals, rho) ==
    Bind(<<poissonTable(matrixSize - 1, homeExpGoals), poissonTable(matrixSize - 1, awayExpGoals)>>,
         LAMBDA p : dixonColesCells(p[1], p[2], homeExpGoals, awayExpGoals, rho))

bivariateMatrixOf(homeExpGoals, awayExpGoals, lambda3) ==
    [h \in Goals |-> [a \in Goals |->
        [h |-> h, a |-> a,
         prob |-> bivariatePoissonProbability(h, a, homeExpGoals, awayExpGoals, lambda3)]]]

\* payload.x !== undefined ? payload.x : default
OrDefault(x, default) == IF x # Undefined THEN x ELSE default

safeDiv_unguarded(num, den) == Div(num, den)

safeDiv(num, den) == IF den = Zero THEN Zero ELSE Div(num, den)

\* the four strength ratios (api.js 889-893)
strengths(leagueData, homeTeam, awayTeam) ==
    [homeAttackStr |-> safeDiv(safeDiv(FromInt(homeTeam.home_goals_for), FromInt(homeTeam.home_games_played)),
                               leagueData.avg_home_goals),
     awayAttackStr |-> safeDiv(safeDiv(FromInt(awayTeam.away_goals_for), FromInt(awayTeam.away_games_played)),
                               leagueData.avg_away_goals),
     homeDefenseStr |-> safeDiv(safeDiv(FromInt(homeTeam.home_goals_against), FromInt(homeTeam.home_games_played)),
                                leagueData.avg_away_goals),
     awayDefenseStr |-> safeDiv(safeDiv(FromInt(awayTeam.away_goals_against), FromInt(awayTeam.away_games_played)),
                                leagueData.avg_home_goals)]


\* ------------------------------------------------------------------------
\* The predict handlers
\* ------------------------------------------------------------------------
floor == Dec(1, -1)

\* the stale comment of api.js 885: "/ 2"
expectedGoals_halved(leagueData, homeTeam, awayTeam, homeForm, awayForm) ==
    LET regressionAdjustment == Div(Sub(homeForm.predictedGD, awayForm.predictedGD), FromInt(2))
        str == strengths(leagueData, homeTeam, awayTeam)
        homeAttackStr == Mul(str.homeAttackStr, homeForm.formModifier)
        awayAttackStr == Mul(str.awayAttackStr, awayForm.formModifier)
        homeRaw == Add(Mul(Mul(homeAttackStr, str.awayDefenseStr), leagueData.avg_home_goals), regressionAdjustment)
        awayRaw == Sub(Mul(Mul(awayAttackStr, str.homeDefenseStr), leagueData.avg_away_goals), regressionAdjustment)
    IN  [homeExpGoals |-> Max(floor, homeRaw),
         awayExpGoals |-> Max(floor, awayRaw),
         regressionAdjustment |-> regressionAdjustment]

\* expected goals of the form-regression revision (api.js 887-910)
expectedGoals(leagueData, homeTeam, awayTeam, homeForm, awayForm) ==
    LET regressionAdjustment == Div(Sub(homeForm.predictedGD, awayForm.predictedGD), FromInt(4))
        str == strengths(leagueData, homeTeam, awayTeam)
        homeAttackStr == Mul(str.homeAttackStr, homeForm.formModifier)
        awayAttackStr == Mul(str.awayAttackStr, awayForm.formModifier)
        homeRaw == Add(Mul(Mul(homeAttackStr, str.awayDefenseStr), leagueData.avg_home_goals), regressionAdjustment)
        awayRaw == Sub(Mul(Mul(awayAttackStr, str.homeDefenseStr), leagueData.avg_away_goals), regressionAdjustment)
    IN  [homeExpGoals |-> Max(floor, homeRaw),
         awayExpGoals |-> Max(floor, awayRaw),
         regressionAdjustment |-> regressionAdjustment]

expectedGoals_swapped(leagueData, homeTeam, awayTeam) ==
    LET str == strengths(leagueData, homeTeam, awayTeam)
    IN  [homeExpGoals |-> Mul(Mul(str.homeAttackStr, str.awayDefenseStr), leagueData.avg_away_goals),
         awayExpGoals |-> Mul(Mul(str.awayAttackStr, str.homeDefenseStr), leagueData.avg_home_goals)]

\* expected goals of the bivariate revision (api.js 410-421): no form, no clamp
expectedGoals_biv(leagueData, homeTeam, awayTeam) ==
    LET str == strengths(leagueData, homeTeam, awayTeam)
    IN  [homeExpGoals |-> Mul(Mul(str.homeAttackStr, str.awayDefenseStr), leagueData.avg_home_goals),
         awayExpGoals |-> Mul(Mul(str.awayAttackStr, str.homeDefenseStr), leagueData.avg_away_goals)]

\* expected goals of the earlier form revision (part_001 555-570): form
\* modifiers, no regression adjustment, no clamp
expectedGoals_early(leagueData, homeTeam, awayTeam, homeForm, awayForm) ==
    LET str == strengths(leagueData, homeTeam, awayTeam)
        homeAttackStr == Mul(str.homeAttackStr, homeForm.formModifier)
        awayAttackStr == Mul(str.awayAttackStr, awayForm.formModifier)
    IN  [homeExpGoals |-> Mul(Mul(homeAttackStr, str.awayDefenseStr), leagueData.avg_home_goals),
         awayExpGoals |-> Mul(Mul(awayAttackStr, str.homeDefenseStr), leagueData.avg_away_goals)]

\* calculatePrediction once the rows are found (app/actions.ts 131-169):
\* expected goals without form or clamp, and the independent-Poisson grid
calculatePrediction(leagueData, homeTeam, awayTeam) ==
    Bind(expectedGoals_biv(leagueData, homeTeam, awayTeam), LAMBDA eg :
         eg @@ modelBlock(poissonMatrixOf(eg.homeExpGoals, eg.awayExpGoals)))

defaultRho == Dec(-13, -2)
defaultGoalLine == Dec(25, -1)
defaultBttsOdds == Dec(180, -2)

\* what predict hands to each component, and the optional parameters in force
callsOf(eg, leagueData, payload) ==
    LET rho == OrDefault(payload.rho, defaultRho)
        goalLine == OrDefault(payload.goalLine, defaultGoalLine)
        bttsOdds == OrDefault(payload.bttsOdds, defaultBttsOdds)
        lambda3 == IF payload.lambda3 # Undefined THEN payload.lambda3
                   ELSE estimateLambda3(eg.homeExpGoals, eg.awayExpGoals,
                                        leagueData.avg_home_goals, leagueData.avg_away_goals)
    IN  [rho |-> rho, goalLine |-> goalLine, bttsOdds |-> bttsOdds, lambda3 |-> lambda3,
         estimator |-> IF payload.lambda3 # Undefined THEN <<>> ELSE <<eg.homeExpGoals, eg.awayExpGoals>>,
         grid |-> <<eg.homeExpGoals, eg.awayExpGoals>>,
         goalLineAnalyzer |-> <<eg.homeExpGoals, eg.awayExpGoals>>,
         btts |-> <<eg.homeExpGoals, eg.awayExpGoals>>]

\* { ...tglAnalysis, ...goalLineProbabilities }
Spread(t, g) ==
    [k \in DOMAIN t \cup DOMAIN g |-> IF k \in DOMAIN g THEN g[k] ELSE t[k]]

\* the response body of predict, form-regression revision (api.js 937-942)
resultOf(eg, c, homeForm, awayForm, dcBlock, trueGoalLine, bttsAnalysis) ==
    Bind(dcBlock, LAMBDA dc :
    [homeExpGoals |-> ToFixed(eg.homeExpGoals, 2),
     awayExpGoals |-> ToFixed(eg.awayExpGoals, 2),
     totalExpectedGoals |-> ToFixed(Add(eg.homeExpGoals, eg.awayExpGoals), 2),
     rho |-> c.rho, lambda3 |-> c.lambda3,
     homeForm |-> homeForm, awayForm |-> awayForm,
     regressionAdjustment |-> ToFixed(eg.regressionAdjustment, 2),
     homeWinProb |-> dc.homeWinProb, drawProb |-> dc.drawProb, awayWinProb |-> dc.awayWinProb,
     matrix |-> dc.matrix,
     trueGoalLine |-> trueGoalLine,
     btts |-> bttsAnalysis])

\* the analyses of predict, form-regression revision (api.js 916-942)
analysesOf(eg, c, homeForm, awayForm) ==
    resultOf(eg, c, homeForm, awayForm,
             modelBlock(dixonColesMatrixOf(c.grid[1], c.grid[2], c.rho)),
             Spread(analyzeTGL(Add(eg.homeExpGoals, eg.awayExpGoals), c.goalLine),
                    calculateGoalLineProbabilities(c.goalLineAnalyzer[1], c.goalLineAnalyzer[2], c.goalLine)),
             analyzeBTTS(c.btts[1], c.btts[2], c.lambda3, c.bttsOdds))

\* predict once the rows are found, form-regression revision (api.js 881-942):
\* the expected goals, what is handed on, and the response body
predictOutcome(leagueData, homeTeam, awayTeam, homeHistory, awayHistory, payload) ==
    Bind(<<analyzeTeamForm(homeHistory), analyzeTeamForm(awayHistory)>>, LAMBDA form :
    Bind(expectedGoals(leagueData, homeTeam, awayTeam, form[1], form[2]), LAMBDA eg :
    Bind(callsOf(eg, leagueData, payload), LAMBDA c :
         [eg |-> eg, handed |-> c, body |-> analysesOf(eg, c, form[1], form[2])])))

\* the response body of the two three-model revisions (api.js 493-527, part_001 640-678)
threeModelBody(eg, c, p, dcBlock, biv, trueGoalLine, bttsAnalysis) ==
    Bind(dcBlock, LAMBDA dc :
    [homeExpGoals |-> ToFixed(eg.homeExpGoals, 2),
     awayExpGoals |-> ToFixed(eg.awayExpGoals, 2),
     totalExpectedGoals |-> ToFixed(Add(eg.homeExpGoals, eg.awayExpGoals), 2),
     rho |-> c.rho, lambda3 |-> ToFixed(c.lambda3, 3),
     poisson |-> p, dixonColes |-> dc, bivariatePoisson |-> biv,
     trueGoalLine |-> trueGoalLine,
     btts |-> bttsAnalysis,
     homeWinProb |-> dc.homeWinProb, drawProb |-> dc.drawProb, awayWinProb |-> dc.awayWinProb,
     matrix |-> dc.matrix])

\* the model blocks and analyses shared by the two three-model revisions
\* (api.js 433-527, part_001 582-678)
threeModelResult(eg, c) ==
    threeModelBody(eg, c,
                   modelBlock(poissonMatrixOf(c.grid[1], c.grid[2])),
                   modelBlock(dixonColesMatrixOf_biv(c.grid[1], c.grid[2], c.rho)),
                   modelBlock(bivariateMatrixOf(c.grid[1], c.grid[2], c.lambda3)),
                   Spread(analyzeTGL_biv(Add(eg.homeExpGoals, eg.awayExpGoals), c.goalLine),
                          calculateGoalLineProbabilities(c.goalLineAnalyzer[1], c.goalLineAnalyzer[2], c.goalLine)),
                   analyzeBTTS_biv(c.btts[1], c.btts[2], c.lambda3, c.bttsOdds))

\* predict once the rows are found, bivariate revision (api.js 410-527)
predictOutcome_biv(leagueData, homeTeam, awayTeam, payload) ==
    Bind(expectedGoals_biv(leagueData, homeTeam, awayTeam), LAMBDA eg :
    Bind(callsOf(eg, leagueData, payload), LAMBDA c :
         [eg |-> eg, handed |-> c, body |-> threeModelResult(eg, c)]))

\* predict once the rows are found, earlier form revision (part_001 542-678)
predictOutcome_early(leagueData, homeTeam, awayTeam, homeHistory, awayHistory, payload) ==
    Bind(<<analyzeTeamForm_early(homeHistory), analyzeTeamForm_early(awayHistory)>>, LAMBDA form :
    Bind(expectedGoals_early(leagueData, homeTeam, awayTeam, form[1], form[2]), LAMBDA eg :
    Bind(callsOf(eg, leagueData, payload), LAMBDA c :
         [eg |-> eg, handed |-> c,
          body |-> [homeForm |-> form[1], awayForm |-> form[2]] @@ threeModelResult(eg, c)])))


\* ------------------------------------------------------------------------
\* Stored data, requests and responses
\* ------------------------------------------------------------------------
VARIABLES leagues, teams, matchHistory, response, calls, args, value, requests

vars == <<leagues, teams, matchHistory, response, calls, args, value, requests>>

LeagueIds == {1}
TeamIds == {1, 2}
RequestedTeamIds == TeamIds \cup {3}

Stats(gf, ga, gp) ==
    [home_goals_for |-> gf, home_goals_against |-> ga, home_games_played |-> gp,
     away_goals_for |-> gf, away_goals_against |-> ga, away_games_played |-> gp]

Match(x, scored, conceded) ==
    [match_number |-> x, goals_scored |-> scored, goals_conceded |-> conceded, was_home |-> x % 2,
     points |-> IF scored > conceded THEN 3 ELSE IF scored = conceded THEN 1 ELSE 0]

MaxGoalsPerGame == 3

\* team rows an administrator may store: no games played, or ten games with
\* up to MaxGoalsPerGame goals scored per game
TeamRows == {Stats(0, 0, 0), Stats(5 * MaxGoalsPerGame, 12, 10)}

\* histories an administrator may store: empty, a single match, matches sharing
\* one match number, a steep rise and a steep fall
Histories ==
    {<<>>,
     <<Match(1, 1, 1)>>,
     <<Match(2, 0, 1), Match(2, 2, 0)>>,
     <<Match(1, 0, MaxGoalsPerGame), Match(2, 1, 1), Match(3, MaxGoalsPerGame, 0)>>,
     <<Match(1, MaxGoalsPerGame, 0), Match(2, 1, 1), Match(3, 0, MaxGoalsPerGame)>>}

LeagueRow == [avg_home_goals |-> Dec(15, -1), avg_away_goals |-> Dec(12, -1)]

\* predict requests: the optional parameters all absent, or all supplied
Payloads ==
    {[leagueId |-> l, homeTeamId |-> h, awayTeamId |-> a,
      rho |-> Undefined, goalLine |-> Undefined, bttsOdds |-> Undefined, lambda3 |-> Undefined] :
        l \in LeagueIds, h \in {1}, a \in RequestedTeamIds \ {1}}
    \cup
    {[leagueId |-> l, homeTeamId |-> 1, awayTeamId |-> 2,
      rho |-> Zero, goalLine |-> Dec(35, -1), bttsOdds |-> FromInt(2), lambda3 |-> Zero] :
        l \in LeagueIds}

\* the invocations of the handler in flight: where each one stands, its payload
\* and the constants it has bound so far
RequestIds == {1, 2}
idle == [pc |-> "idle", payload |-> <<>>, bound |-> <<>>, response |-> <<>>]

Init ==
    /\ leagues = [i \in LeagueIds |-> LeagueRow]
    /\ teams = [i \in TeamIds |-> Stats(0, 0, 0)]
    /\ matchHistory = [i \in TeamIds |-> <<>>]
    /\ response = [action |-> "none", status |-> 0]
    /\ calls = [action |-> "none"]
    /\ args = <<>>
    /\ value = <<>>
    /\ requests = [r \in RequestIds |-> idle]

ok(action, body) == [action |-> action, status |-> 200, body |-> body]
failed(action, message) == [action |-> action, status |-> 500, body |-> [error |-> message]]

\* case 'updateTeam' (api.js 864-867)
updateTeam(id, row) ==
    /\ teams' = [teams EXCEPT ![id] = row]
    /\ response' = ok("updateTeam", [success |-> TRUE])
    /\ calls' = [action |-> "updateTeam"]
    /\ UNCHANGED <<leagues, matchHistory, args, value, requests>>

\* case 'saveMatchHistory' (api.js 843-851)
saveMatchHistory(id, matches) ==
    /\ matchHistory' = [matchHistory EXCEPT ![id] = matches]
    /\ response' = ok("saveMatchHistory", [success |-> TRUE])
    /\ calls' = [action |-> "saveMatchHistory"]
    /\ UNCHANGED <<leagues, teams, args, value, requests>>

Found(payload) ==
    /\ payload.leagueId \in DOMAIN leagues
    /\ payload.homeTeamId \in DOMAIN teams
    /\ payload.awayTeamId \in DOMAIN teams

notFound ==
    /\ response' = failed("predict", "Invalid selection - Data not found")
    /\ calls' = [action |-> "predict", found |-> FALSE]

\* the response, and the record of what predict handed to its components
respond(outcome) ==
    /\ response' = ok("predict", outcome.body)
    /\ calls' = [action |-> "predict", found |-> TRUE, handed |-> outcome.handed,
                 eg |-> [homeExpGoals |-> outcome.eg.homeExpGoals,
                         awayExpGoals |-> outcome.eg.awayExpGoals]]

\* case 'predict', form-regression revision (api.js 872-943)
predict(payload) ==
    /\ IF ~Found(payload) THEN notFound
       ELSE \E outcome \in {predictOutcome(leagues[payload.leagueId],
                                           teams[payload.homeTeamId], teams[payload.awayTeamId],
                                           SortByMatchNumber(matchHistory[payload.homeTeamId]),
                                           SortByMatchNumber(matchHistory[payload.awayTeamId]),
                                           payload)} : respond(outcome)
    /\ UNCHANGED <<leagues, teams, matchHistory, args, value, requests>>

\* case 'predict', bivariate revision (api.js 403-528)
predict_biv(payload) ==
    /\ IF ~Found(payload) THEN notFound
       ELSE \E outcome \in {predictOutcome_biv(leagues[payload.leagueId],
                                               teams[payload.homeTeamId], teams[payload.awayTeamId],
                                               payload)} : respond(outcome)
    /\ UNCHANGED <<leagues, teams, matchHistory, args, value, requests>>

\* case 'predict', earlier form revision (part_001 535-679)
predict_early(payload) ==
    /\ IF ~Found(payload) THEN notFound
       ELSE \E outcome \in {predictOutcome_early(leagues[payload.leagueId],
                                                 teams[payload.homeTeamId], teams[payload.awayTeamId],
                                                 SortByMatchNumber(matchHistory[payload.homeTeamId]),
                                                 SortByMatchNumber(matchHistory[payload.awayTeamId]),
                                                 payload)} : respond(outcome)
    /\ UNCHANGED <<leagues, teams, matchHistory, args, value, requests>>

Next ==
    \/ \E id \in TeamIds, row \in TeamRows : updateTeam(id, row)
    \/ \E id \in TeamIds, matches \in Histories : saveMatchHistory(id, matches)
    \/ \E payload \in Payloads : predict(payload)

Spec == Init /\ [][Next]_vars

NextBiv ==
    \/ \E id \in TeamIds, row \in TeamRows : updateTeam(id, row)
    \/ \E id \in TeamIds, matches \in Histories : saveMatchHistory(id, matches)
    \/ \E payload \in Payloads : predict_biv(payload)

SpecBiv == Init /\ [][NextBiv]_vars

NextEarly ==
    \/ \E id \in TeamIds, row \in TeamRows : updateTeam(id, row)
    \/ \E id \in TeamIds, matches \in Histories : saveMatchHistory(id, matches)
    \/ \E payload \in Payloads : predict_early(payload)

SpecEarly == Init /\ [][NextEarly]_vars

\* db.select().from(table).where(eq(table.id, id)).limit(1): the rows found
selectById_first(table, id) ==
    IF DOMAIN table = {} THEN <<>>
    ELSE <<table[CHOOSE i \in DOMAIN table : \A j \in DOMAIN table : i <= j]>>

selectById(table, id) == IF id \in DOMAIN table THEN <<table[id]>> ELSE <<>>

\* db.select().from(matchHistory).where(eq(team_id, id)).orderBy(asc(match_number))
selectHistory(id) == IF id \in DOMAIN matchHistory THEN SortByMatchNumber(matchHistory[id]) ELSE <<>>

\* predict requests of concurrent invocations: either order of the two teams,
\* and a team that is not stored
ConcurrentPayloads ==
    {[leagueId |-> 1, homeTeamId |-> t[1], awayTeamId |-> t[2],
      rho |-> Undefined, goalLine |-> Undefined, bttsOdds |-> Undefined, lambda3 |-> Undefined] :
        t \in {<<1, 2>>, <<2, 1>>, <<1, 3>>}}

StoredTeams ==
    {[i \in TeamIds |-> IF i = 1 THEN Stats(5 * MaxGoalsPerGame, 12, 10) ELSE Stats(8, 5 * MaxGoalsPerGame, 10)],
     [i \in TeamIds |-> IF i = 1 THEN Stats(0, 0, 0) ELSE Stats(5 * MaxGoalsPerGame, 12, 10)]}

StoredHistories ==
    {[i \in TeamIds |-> <<>>],
     [i \in TeamIds |-> IF i = 1 THEN <<Match(1, 0, MaxGoalsPerGame), Match(2, 1, 1), Match(3, MaxGoalsPerGame, 0)>>
                         ELSE <<Match(2, 0, 1), Match(2, 2, 0)>>]}

InitConcurrent ==
    /\ leagues = [i \in LeagueIds |-> LeagueRow]
    /\ teams \in StoredTeams
    /\ matchHistory \in StoredHistories
    /\ response = [action |-> "none", status |-> 0]
    /\ calls = [action |-> "none"]
    /\ args = <<>>
    /\ value = <<>>
    /\ requests = [r \in RequestIds |-> idle]

\* one invocation moves on; nothing else does
moves(r, pc, name, rows) ==
    /\ requests' = [requests EXCEPT ![r] = [@ EXCEPT !.pc = pc, !.bound = name :> rows @@ @]]
    /\ UNCHANGED <<leagues, teams, matchHistory, response, calls, args, value>>

returned(r, res) ==
    /\ requests' = [requests EXCEPT ![r] = [@ EXCEPT !.pc = "done", !.response = res]]
    /\ UNCHANGED <<leagues, teams, matchHistory, response, calls, args, value>>

\* exports.handler is invoked with action 'predict' (api.js 799-827)
invoke(r, payload) ==
    /\ requests[r].pc \in {"idle", "done"}
    /\ requests' = [requests EXCEPT ![r] = [idle EXCEPT !.pc = "leagueData", !.payload = payload]]
    /\ UNCHANGED <<leagues, teams, matchHistory, response, calls, args, value>>

\* const [leagueData] = await ... (api.js 873)
await_leagueData(r) ==
    /\ requests[r].pc = "leagueData"
    /\ moves(r, "homeTeam", "leagueData", selectById(leagues, requests[r].payload.leagueId))

\* const [homeTeam] = await ... (api.js 874)
await_homeTeam(r) ==
    /\ requests[r].pc = "homeTeam"
    /\ moves(r, "awayTeam", "homeTeam", selectById(teams, requests[r].payload.homeTeamId))

\* const [awayTeam] = await ..., and the throw when a row is missing (api.js 875-876, 947-950)
await_awayTeam(r) ==
    /\ requests[r].pc = "awayTeam"
    /\ LET awayTeam == selectById(teams, requests[r].payload.awayTeamId)
       IN  IF requests[r].bound.leagueData = <<>> \/ requests[r].bound.homeTeam = <<>> \/ awayTeam = <<>>
           THEN returned(r, failed("predict", "Invalid selection - Data not found"))
           ELSE moves(r, "homeHistory", "awayTeam", awayTeam)

\* const homeHistory = await ... (api.js 878)
await_homeHistory(r) ==
    /\ requests[r].pc = "homeHistory"
    /\ moves(r, "awayHistory", "homeHistory", selectHistory(requests[r].payload.homeTeamId))

\* const awayHistory = await ..., and the rest of the case, which does not
\* await (api.js 879-943)
await_awayHistory(r) ==
    /\ requests[r].pc = "awayHistory"
    /\ \E outcome \in {predictOutcome(requests[r].bound.leagueData[1], requests[r].bound.homeTeam[1],
                                       requests[r].bound.awayTeam[1], requests[r].bound.homeHistory,
                                       selectHistory(requests[r].payload.awayTeamId),
                                       requests[r].payload)} :
           returned(r, ok("predict", outcome.body))

NextConcurrent ==
    \/ \E r \in RequestIds, payload \in ConcurrentPayloads : invoke(r, payload)
    \/ \E r \in RequestIds : await_leagueData(r)
    \/ \E r \in RequestIds : await_homeTeam(r)
    \/ \E r \in RequestIds : await_awayTeam(r)
    \/ \E r \in RequestIds : await_homeHistory(r)
    \/ \E r \in RequestIds : await_awayHistory(r)

SpecConcurrent == InitConcurrent /\ [][NextConcurrent]_vars

\* saveMatchHistory requests of concurrent invocations: a team and the matches
\* that are to become its history
SavePayloads ==
    {[teamId |-> t, matches |-> m] :
        t \in TeamIds,
        m \in {<<>>, <<Match(1, 1, 1)>>, <<Match(1, 0, MaxGoalsPerGame), Match(2, MaxGoalsPerGame, 0)>>}}

InitSave ==
    /\ leagues = [i \in LeagueIds |-> LeagueRow]
    /\ teams = [i \in TeamIds |-> Stats(0, 0, 0)]
    /\ matchHistory \in StoredHistories
    /\ response = [action |-> "none", status |-> 0]
    /\ calls = [action |-> "none"]
    /\ args = <<>>
    /\ value = <<>>
    /\ requests = [r \in RequestIds |-> idle]

\* exports.handler is invoked with action 'saveMatchHistory' (api.js 799-827)
invoke_saveMatchHistory(r, payload) ==
    /\ requests[r].pc \in {"idle", "done"}
    /\ requests' = [requests EXCEPT ![r] = [idle EXCEPT !.pc = "delete", !.payload = payload]]
    /\ UNCHANGED <<leagues, teams, matchHistory, response, calls, args, value>>

\* await db.delete(matchHistory).where(eq(matchHistory.team_id, payload.teamId)),
\* and the result when there is nothing to insert (api.js 844-845, 850)
await_delete(r) ==
    /\ requests[r].pc = "delete"
    /\ matchHistory' = [matchHistory EXCEPT ![requests[r].payload.teamId] = <<>>]
    /\ requests' = [requests EXCEPT ![r] =
                        IF requests[r].payload.matches # <<>>
                        THEN [@ EXCEPT !.pc = "insert"]
                        ELSE [@ EXCEPT !.pc = "done",
                                       !.response = ok("saveMatchHistory", [success |-> TRUE])]]
    /\ UNCHANGED <<leagues, teams, response, calls, args, value>>

\* await db.insert(matchHistory).values(payload.matches.map(...)) (api.js 846-850)
await_insert(r) ==
    /\ requests[r].pc = "insert"
    /\ matchHistory' = [matchHistory EXCEPT ![requests[r].payload.teamId] = @ \o requests[r].payload.matches]
    /\ requests' = [requests EXCEPT ![r] = [@ EXCEPT !.pc = "done",
                                                     !.response = ok("saveMatchHistory", [success |-> TRUE])]]
    /\ UNCHANGED <<leagues, teams, response, calls, args, value>>

NextSave ==
    \/ \E r \in RequestIds, payload \in SavePayloads : invoke_saveMatchHistory(r, payload)
    \/ \E r \in RequestIds : await_delete(r)
    \/ \E r \in RequestIds : await_insert(r)

SpecSave == InitSave /\ [][NextSave]_vars

\* ------------------------------------------------------------------------
\* The analysis functions called on their own: args holds the arguments
\* (prices, lines, rates and rho in hundredths), value the function called
\* and what it returned
\* ------------------------------------------------------------------------
Stored ==
    /\ leagues = [i \in LeagueIds |-> LeagueRow]
    /\ teams = [i \in TeamIds |-> Stats(0, 0, 0)]
    /\ matchHistory = [i \in TeamIds |-> <<>>]
    /\ response = [action |-> "none", status |-> 0]
    /\ calls = [action |-> "none"]
    /\ requests = [r \in RequestIds |-> idle]

returns(fn, out) ==
    /\ value' = [fn |-> fn, out |-> out]
    /\ UNCHANGED <<leagues, teams, matchHistory, response, calls, args, requests>>

Hundredths(x) == Dec(x, -2)

\* goal lines, and totals around each line on both sides of every threshold
GoalLines == {150, 250, 350}
Offsets == {-60, -51, -50, -31, -30, -21, -20, -19, 0, 19, 20, 21, 30, 31, 50, 51, 60}

InitTGL ==
    /\ Stored
    /\ args \in {[total |-> l + d, line |-> l] : l \in GoalLines, d \in Offsets}
    /\ value = <<>>

call_analyzeTGL ==
    returns("analyzeTGL", analyzeTGL(Hundredths(args.total), Hundredths(args.line)))

call_analyzeTGL_biv ==
    returns("analyzeTGL_biv", analyzeTGL_biv(Hundredths(args.total), Hundredths(args.line)))

NextTGL == call_analyzeTGL \/ call_analyzeTGL_biv

SpecTGL == InitTGL /\ [][NextTGL]_vars

\* bookmaker prices, and fair prices at every distance from them around the tiers
BookiePrices == {180, 200}
ValueDiffs == {-40, -31, -30, -21, -20, -19, -16, -15, -14, -6, -5, -4, 0, 5, 6, 15, 16, 30, 31, 40}

InitBTTS ==
    /\ Stored
    /\ args \in {[bookie |-> b, fair |-> b - d] : b \in BookiePrices, d \in ValueDiffs}
    /\ value = <<>>

call_bttsValue ==
    returns("bttsValue", bttsValue(Hundredths(args.bookie), Hundredths(args.fair)))

call_bttsValue_biv ==
    returns("bttsValue_biv", bttsValue_biv(Hundredths(args.bookie), Hundredths(args.fair)))

call_bttsValue_indep ==
    returns("bttsValue_indep", bttsValue_indep(Hundredths(args.bookie), Hundredths(args.fair)))

NextBTTS == call_bttsValue \/ call_bttsValue_biv \/ call_bttsValue_indep

SpecBTTS == InitBTTS /\ [][NextBTTS]_vars

\* rates and correlations: the default rho, none, and values at which an
\* adjustment vanishes or turns negative
Rates == {10, 50, 150, 200}
Rhos == {-13, 0, -50, 50, 100, 200}
LowGoals == 0..2

InitDC ==
    /\ Stored
    /\ args \in {[homeGoals |-> h, awayGoals |-> a, lambdaHome |-> lh, lambdaAway |-> la, rho |-> r] :
                    h \in LowGoals, a \in LowGoals, lh \in Rates, la \in Rates, r \in Rhos}
    /\ value = <<>>

call_dixonColesAdjustment ==
    returns("dixonColesAdjustment",
            dixonColesAdjustment(args.homeGoals, args.awayGoals, Hundredths(args.lambdaHome),
                                 Hundredths(args.lambdaAway), Hundredths(args.rho)))

NextDC == call_dixonColesAdjustment

SpecDC == InitDC /\ [][NextDC]_vars

\* match numbers of a three-match history: consecutive, with a gap, evenly
\* spread (slopes in quarters), stored out of order, and all the same
MatchNumbers == {<<1, 2, 3>>, <<1, 2, 4>>, <<1, 3, 5>>, <<3, 1, 2>>, <<2, 2, 2>>}
ScoredGoals == 0..MaxGoalsPerGame
ConcededGoals == {0, MaxGoalsPerGame}

FormHistories ==
    {<<>>}
    \cup {<<Match(1, s, c)>> : s \in ScoredGoals, c \in ConcededGoals}
    \cup {<<Match(x[1], s1, c1), Match(x[2], s2, c2), Match(x[3], s3, c3)>> :
              x \in MatchNumbers, s1 \in ScoredGoals, s2 \in ScoredGoals, s3 \in ScoredGoals,
              c1 \in ConcededGoals, c2 \in ConcededGoals, c3 \in ConcededGoals}

InitForm ==
    /\ Stored
    /\ args \in FormHistories
    /\ value = <<>>

call_analyzeTeamForm == returns("analyzeTeamForm", analyzeTeamForm(args))

call_analyzeTeamForm_early == returns("analyzeTeamForm_early", analyzeTeamForm_early(args))

\* analyzeTeamForm(undefined): !matchHistory holds and the first branch returns
call_analyzeTeamForm_absent == returns("analyzeTeamForm_absent", emptyForm)

call_analyzeTeamForm_early_absent == returns("analyzeTeamForm_early_absent", emptyForm_early)

NextForm ==
    \/ call_analyzeTeamForm
    \/ call_analyzeTeamForm_early
    \/ call_analyzeTeamForm_absent
    \/ call_analyzeTeamForm_early_absent

SpecForm == InitForm /\ [][NextForm]_vars

\* expected goals from the floor to beyond 1/0.13, with no correlation, the
\* default, and correlations at which an adjustment vanishes or turns negative
GridRates == {10, 150, 200, 800}
GridRhos == {-13, 0, -50, 100, 200}
Lambda3s == {-10, 0, 10, 50}

InitGrid ==
    /\ Stored
    /\ args \in {[lambdaHome |-> lh, lambdaAway |-> la, rho |-> r, lambda3 |-> l3] :
                    lh \in GridRates, la \in GridRates, r \in GridRhos, l3 \in Lambda3s}
    /\ value = <<>>

\* the grids of the bivariate revision (api.js 433-484)
call_grids_biv ==
    returns("grids_biv",
            [poisson |-> modelBlock(poissonMatrixOf(Hundredths(args.lambdaHome), Hundredths(args.lambdaAway))),
             dixonColes |-> modelBlock(dixonColesMatrixOf_biv(Hundredths(args.lambdaHome),
                                                             Hundredths(args.lambdaAway), Hundredths(args.rho))),
             bivariatePoisson |-> modelBlock(bivariateMatrixOf(Hundredths(args.lambdaHome),
                                                                Hundredths(args.lambdaAway),
                                                                Hundredths(args.lambda3)))])

\* the grid of the form-regression revision (api.js 916-931)
call_grid ==
    returns("grid",
            [dixonColes |-> modelBlock(dixonColesMatrixOf(Hundredths(args.lambdaHome),
                                                         Hundredths(args.lambdaAway), Hundredths(args.rho)))])

NextGrid == call_grids_biv \/ call_grid

SpecGrid == InitGrid /\ [][NextGrid]_vars

\* scorelines and rates of one bivariate probability, with no shared
\* component, a positive one and a negative one
BivariateGoals == 0..3
BivariateRates == {10, 150, 250}
BivariateLambda3s == {0, 10, -5}

InitBivariate ==
    /\ Stored
    /\ args \in {[homeGoals |-> h, awayGoals |-> a, lambda1 |-> l1, lambda2 |-> l2, lambda3 |-> l3] :
                    h \in BivariateGoals, a \in BivariateGoals,
                    l1 \in BivariateRates, l2 \in BivariateRates, l3 \in BivariateLambda3s}
    /\ value = <<>>

call_bivariatePoissonProbability ==
    returns("bivariatePoissonProbability",
            bivariatePoissonProbability(args.homeGoals, args.awayGoals, Hundredths(args.lambda1),
                                        Hundredths(args.lambda2), Hundredths(args.lambda3)))

NextBivariate == call_bivariatePoissonProbability

SpecBivariate == InitBivariate /\ [][NextBivariate]_vars

\* a team row with separate home and away records
TeamRow(hgf, hga, hgp, agf, aga, agp) ==
    [home_goals_for |-> hgf, home_goals_against |-> hga, home_games_played |-> hgp,
     away_goals_for |-> agf, away_goals_against |-> aga, away_games_played |-> agp]

\* rows: nothing played; exactly the averages of the first league; goals
\* recorded without games; a strong and a weak team
StrengthRows ==
    {TeamRow(0, 0, 0, 0, 0, 0),
     TeamRow(15, 12, 10, 12, 15, 10),
     TeamRow(5, 3, 0, 2, 4, 0),
     TeamRow(25, 5, 10, 20, 8, 10),
     TeamRow(1, 20, 10, 1, 25, 10)}

StrengthLeagues ==
    {[avg_home_goals |-> Dec(15, -1), avg_away_goals |-> Dec(12, -1)],
     [avg_home_goals |-> FromInt(2), avg_away_goals |-> One],
     [avg_home_goals |-> Zero, avg_away_goals |-> Zero]}

InitStrength ==
    /\ Stored
    /\ args \in {[leagueData |-> l, homeTeam |-> h, awayTeam |-> a] :
                    l \in StrengthLeagues, h \in StrengthRows, a \in StrengthRows}
    /\ value = <<>>

call_strengths ==
    returns("strengths", strengths(args.leagueData, args.homeTeam, args.awayTeam))

\* the expected-goals step of predict with both histories empty (api.js 881-908)
call_expectedGoals ==
    returns("expectedGoals",
            expectedGoals(args.leagueData, args.homeTeam, args.awayTeam,
                          analyzeTeamForm(<<>>), analyzeTeamForm(<<>>)))

call_expectedGoals_biv ==
    returns("expectedGoals_biv", expectedGoals_biv(args.leagueData, args.homeTeam, args.awayTeam))

call_calculatePrediction ==
    returns("calculatePrediction", calculatePrediction(args.leagueData, args.homeTeam, args.awayTeam))

NextStrength ==
    call_strengths \/ call_expectedGoals \/ call_expectedGoals_biv \/ call_calculatePrediction

SpecStrength == InitStrength /\ [][NextStrength]_vars

\* expected goals whose total lies on, just above and just below 1.2 and 0.8
\* times the league total, and far from both; lambda3 absent or supplied
HomeRates == {10, 100, 180, 200, 400}
AwayRates == {10, 115, 116, 124, 125, 150, 200}
LeagueAverages == {<<150, 120>>, <<100, 100>>}
SuppliedLambda3s == {Undefined, Zero, Dec(3, -1), Dec(-2, -1)}

InitLambda3 ==
    /\ Stored
    /\ args \in {[homeExpGoals |-> lh, awayExpGoals |-> la, leagueAvgHome |-> l[1], leagueAvgAway |-> l[2],
                   lambda3 |-> l3] :
                    lh \in HomeRates, la \in AwayRates, l \in LeagueAverages, l3 \in SuppliedLambda3s}
    /\ value = <<>>

call_estimateLambda3 ==
    returns("estimateLambda3",
            estimateLambda3(Hundredths(args.homeExpGoals), Hundredths(args.awayExpGoals),
                            Hundredths(args.leagueAvgHome), Hundredths(args.leagueAvgAway)))

\* the optional parameters of predict and what they are handed to (api.js 910-936)
call_callsOf ==
    returns("callsOf",
            callsOf([homeExpGoals |-> Hundredths(args.homeExpGoals), awayExpGoals |-> Hundredths(args.awayExpGoals)],
                    [avg_home_goals |-> Hundredths(args.leagueAvgHome),
                     avg_away_goals |-> Hundredths(args.leagueAvgAway)],
                    [rho |-> Undefined, goalLine |-> Undefined, bttsOdds |-> Undefined, lambda3 |-> args.lambda3]))

NextLambda3 == call_estimateLambda3 \/ call_callsOf

SpecLambda3 == InitLambda3 /\ [][NextLambda3]_vars

\* lines below every total, on and between totals, on the last total and
\* beyond it, in hundredths
OverUnderLines == {-100, -50, 0, 200, 250, 1400, 1450, 1500, 1600}
OverUnderRates == {10, 150, 250}

InitGoalLine ==
    /\ Stored
    /\ args \in {[homeExpGoals |-> lh, awayExpGoals |-> la, line |-> l] :
                    lh \in OverUnderRates, la \in OverUnderRates, l \in OverUnderLines}
    /\ value = <<>>

call_calculateGoalLineProbabilities ==
    returns("calculateGoalLineProbabilities",
            calculateGoalLineProbabilities(Hundredths(args.homeExpGoals), Hundredths(args.awayExpGoals),
                                           Hundredths(args.line)))

NextGoalLine == call_calculateGoalLineProbabilities

SpecGoalLine == InitGoalLine /\ [][NextGoalLine]_vars

\* samples of one to three points: all x identical, or at least two distinct
SampleXs == {<<1>>, <<2, 2>>, <<1, 2>>, <<3, 3, 3>>, <<1, 2, 3>>, <<1, 3, 5>>, <<2, 2, 4>>}
SampleYs == -3..3

InitRegression ==
    /\ Stored
    /\ args \in {[xValues |-> xs, yValues |-> ys] : xs \in SampleXs, ys \in UNION {[1..n -> SampleYs] : n \in 1..3}}
    /\ Len(args.xValues) = Len(args.yValues)
    /\ value = <<>>

call_linearRegression ==
    returns("linearRegression", linearRegression(args.xValues, args.yValues))

call_linearRegression_early ==
    returns("linearRegression_early", linearRegression_early(args.xValues, args.yValues))

NextRegression == call_linearRegression \/ call_linearRegression_early

SpecRegression == InitRegression /\ [][NextRegression]_vars

\* team rows and histories of the two sides of a match: a strong, a weak, an
\* average and an unplayed team, each without history, rising, falling or
\* with a single match
AdjustmentRows ==
    {TeamRow(0, 0, 0, 0, 0, 0), TeamRow(15, 12, 10, 12, 15, 10),
     TeamRow(25, 5, 10, 20, 8, 10), TeamRow(1, 20, 10, 1, 25, 10)}

AdjustmentHistories ==
    {<<>>,
     <<Match(1, 2, 0)>>,
     <<Match(1, 0, MaxGoalsPerGame), Match(2, 1, 1), Match(3, MaxGoalsPerGame, 0)>>,
     <<Match(1, MaxGoalsPerGame, 0), Match(2, 1, 1), Match(3, 0, MaxGoalsPerGame)>>}

InitAdjustment ==
    /\ Stored
    /\ args \in {[leagueData |-> LeagueRow, homeTeam |-> h, awayTeam |-> a, homeHistory |-> hh, awayHistory |-> ah] :
                    h \in AdjustmentRows, a \in AdjustmentRows,
                    hh \in AdjustmentHistories, ah \in AdjustmentHistories}
    /\ value = <<>>

\* the forms and the expected goals of predict (api.js 881-908)
call_expectedGoals_form ==
    \E form \in {<<analyzeTeamForm(args.homeHistory), analyzeTeamForm(args.awayHistory)>>} :
        returns("expectedGoals_form",
                [homeForm |-> form[1], awayForm |-> form[2],
                 eg |-> expectedGoals(args.leagueData, args.homeTeam, args.awayTeam, form[1], form[2])])

NextAdjustment == call_expectedGoals_form

SpecAdjustment == InitAdjustment /\ [][NextAdjustment]_vars

\* marginal rates from 0 up, and covariances below 0, at 0, inside the
\* marginals, equal to one of them and beyond both, in hundredths
MarginalRates == {0, 10, 150, 250}
Covariances == {-20, -5, 0, 5, 10, 15, 150, 200, 300}

InitResidual ==
    /\ Stored
    /\ args \in {[lambda1 |-> l1, lambda2 |-> l2, lambda3 |-> l3] :
                    l1 \in MarginalRates, l2 \in MarginalRates, l3 \in Covariances}
    /\ value = <<>>

\* lambda3Safe, lambda1Star and lambda2Star of bivariatePoissonProbability (api.js 592-594)
call_residualRates ==
    returns("residualRates",
            residualRates(Hundredths(args.lambda1), Hundredths(args.lambda2), Hundredths(args.lambda3)))

NextResidual == call_residualRates

SpecResidual == InitResidual /\ [][NextResidual]_vars

\* rates from the floor to high-scoring, and covariances below 0 (the
\* estimator's -0.05 among them), at 0 and above it
CollapseRates == {10, 100, 250, 800}
CollapseLambda3s == {-20, -5, 0, 10}

InitCollapse ==
    /\ Stored
    /\ args \in {[lambdaHome |-> lh, lambdaAway |-> la, rho |-> -13, lambda3 |-> l3] :
                    lh \in CollapseRates, la \in CollapseRates, l3 \in CollapseLambda3s}
    /\ value = <<>>

call_analyzeBTTS_biv ==
    returns("analyzeBTTS_biv",
            analyzeBTTS_biv(Hundredths(args.lambdaHome), Hundredths(args.lambdaAway), Hundredths(args.lambda3),
                            defaultBttsOdds))

NextCollapse == call_grids_biv \/ call_analyzeBTTS_biv

SpecCollapse == InitCollapse /\ [][NextCollapse]_vars

\* ------------------------------------------------------------------------
\* Claims
\* ------------------------------------------------------------------------
Predicted == calls.action = "predict" /\ calls.found

\* C1: after the expected-goals step of predict, homeExpGoals >= 0.1 and
\* awayExpGoals >= 0.1 for every stored statistics and histories, and these
\* floored values are the ones handed to the scoreline grid, the goal-line
\* analyzer, the lambda3 estimator and the BTTS analyzer.
C1_ExpectedGoalsFloored ==
    Predicted =>
        /\ Ge(calls.eg.homeExpGoals, floor)
        /\ Ge(calls.eg.awayExpGoals, floor)
        /\ calls.handed.grid = <<calls.eg.homeExpGoals, calls.eg.awayExpGoals>>
        /\ calls.handed.goalLineAnalyzer = <<calls.eg.homeExpGoals, calls.eg.awayExpGoals>>
        /\ calls.handed.btts = <<calls.eg.homeExpGoals, calls.eg.awayExpGoals>>
        /\ calls.handed.estimator \in {<<>>, <<calls.eg.homeExpGoals, calls.eg.awayExpGoals>>}

\* the numbers a form analysis reports
FormNumbers(form) ==
    {form[k] : k \in DOMAIN form \cap
                   {"slope", "intercept", "r2", "pointsSlope", "gdSlope", "gdIntercept", "predictedGD",
                    "formModifier", "avgGoalsScored", "avgGoalsConceded", "avgPoints"}}
    \cup (IF "matchData" \in DOMAIN form
          THEN {form.matchData[i].predicted :
                    i \in {j \in DOMAIN form.matchData : "predicted" \in DOMAIN form.matchData[j]}}
          ELSE {})

\* the numbers of a response body of predict
BodyNumbers(body) ==
    {body.homeExpGoals, body.awayExpGoals, body.totalExpectedGoals, body.rho, body.lambda3,
     body.homeWinProb, body.drawProb, body.awayWinProb}
    \cup {body.matrix[h][a].prob : h \in Goals, a \in Goals}
    \cup UNION {FormNumbers(body[f]) : f \in DOMAIN body \cap {"homeForm", "awayForm"}}

\* C2: whenever the league record and both team records exist, predict returns
\* a complete successful result and never an error outcome, for every stored
\* non-negative statistics (all zeros included) and every match history (empty,
\* a single entry, or several entries sharing one match number).
C2_CompleteResult ==
    Predicted =>
        /\ response.status = 200
        /\ "error" \notin DOMAIN response.body
        /\ \A x \in BodyNumbers(response.body) : IsFinite(x)

\* x * 10^d as an integer, for x with at most d decimals
Scaled(x, d) ==
    IF x[2] + d >= 0 THEN x[1] * Pow10(x[2] + d) ELSE x[1] \div Pow10(-(x[2] + d))

formModifierThousandths == Scaled(value.out.formModifier, 3)

\* C3: for every match history, the formModifier returned by analyzeTeamForm
\* lies in the closed interval [0.80, 1.20].
C3_FormModifierBounded ==
    value # <<>> =>
        /\ IsFinite(value.out.formModifier)
        /\ 800 <= formModifierThousandths
        /\ formModifierThousandths <= 1200

C3_Witness ==
    /\ value # <<>>
    /\ value.fn = "analyzeTeamForm"
    /\ args = <<Match(1, 0, MaxGoalsPerGame), Match(2, 0, 0), Match(3, MaxGoalsPerGame, 0)>>
    /\ formModifierThousandths = 1200

\* the least-squares slope of ys over the match numbers of args, as the
\* fraction SlopeNum(ys) / SlopeDen
Xs == [i \in 1..Len(args) |-> args[i].match_number]
SlopeDen == Len(args) * SumInt([i \in 1..Len(args) |-> Xs[i] * Xs[i]]) - SumInt(Xs) * SumInt(Xs)
SlopeNum(ys) == Len(args) * SumInt([i \in 1..Len(args) |-> Xs[i] * ys[i]]) - SumInt(Xs) * SumInt(ys)
GoalDiffs == [i \in 1..Len(args) |-> args[i].goals_scored - args[i].goals_conceded]
GoalsScored == [i \in 1..Len(args) |-> args[i].goals_scored]

ClampInt(x, lo, hi) == IF x < lo THEN lo ELSE IF x > hi THEN hi ELSE x

\* formModifier is clamp(1 + num/SlopeDen * factor/1000, lo/1000, hi/1000) to
\* the nearest thousandth
IsClampOf(num, factor, lo, hi) ==
    2 * AbsInt(formModifierThousandths * SlopeDen
               - ClampInt(1000 * SlopeDen + factor * num, lo * SlopeDen, hi * SlopeDen)) <= SlopeDen

\* a non-empty history has been analysed
AnalysedHistory ==
    value # <<>> /\ args # <<>> /\ value.fn \in {"analyzeTeamForm", "analyzeTeamForm_early"}

\* C4 as the specification states it: for every non-empty match history with
\* goal-difference slope s, formModifier equals clamp(1.0 + s*0.4, 0.80, 1.20)
\* (read to the three decimals the analysis reports).
C4_Original ==
    (AnalysedHistory /\ SlopeDen # 0) => IsClampOf(SlopeNum(GoalDiffs), 400, 800, 1200)

\* C4: for every non-empty match history, analyzeTeamForm reports formModifier
\* 1.0 when the goal-difference slope s has |s| <= 0.25 (or the match numbers
\* are all equal), and otherwise clamp(1.0 + s*0.4, 0.80, 1.20) rounded to three
\* decimals; the earlier revision does the same with the goals-scored slope, a
\* band of 0.15, a factor of 0.5 and the interval [0.85, 1.15].
C4_FormModifier ==
    AnalysedHistory =>
        IF value.fn = "analyzeTeamForm"
        THEN IF SlopeDen = 0 \/ 100 * AbsInt(SlopeNum(GoalDiffs)) <= 25 * SlopeDen
             THEN formModifierThousandths = 1000
             ELSE IsClampOf(SlopeNum(GoalDiffs), 400, 800, 1200)
        ELSE IF SlopeDen = 0 \/ 100 * AbsInt(SlopeNum(GoalsScored)) <= 15 * SlopeDen
             THEN formModifierThousandths = 1000
             ELSE IsClampOf(SlopeNum(GoalsScored), 500, 850, 1150)

\* a slope of 4/14 outside the band, and the modifier 1.114 it gives
C4_Witness ==
    /\ value # <<>>
    /\ value.fn = "analyzeTeamForm"
    /\ SlopeDen = 14 /\ SlopeNum(GoalDiffs) = 4
    /\ formModifierThousandths = 1114

AbsDifference == AbsInt(args.total - args.line)
Recommended == value # <<>> /\ value.out.recommendation \in {"OVER", "UNDER"}

\* C5: whenever the goal-line classifier recommends OVER or UNDER, |difference|
\* > 0.5 gives STRONG VALUE / High, 0.3 < |difference| <= 0.5 gives GOOD VALUE /
\* Medium, and any smaller |difference| gives SLIGHT VALUE / Low.
C5_RatingAndConfidence ==
    Recommended =>
        /\ AbsDifference > 50 =>
               value.out.valueRating = "STRONG VALUE" /\ value.out.confidence = "High"
        /\ (30 < AbsDifference /\ AbsDifference <= 50) =>
               value.out.valueRating = "GOOD VALUE" /\ value.out.confidence = "Medium"
        /\ AbsDifference <= 30 =>
               value.out.valueRating = "SLIGHT VALUE" /\ value.out.confidence = "Low"

\* C6: the recommendation is OVER exactly when totalExpectedGoals > bookieLine +
\* 0.20, UNDER exactly when totalExpectedGoals < bookieLine - 0.20, and NO BET in
\* every other case, the two boundaries included; exactly one of the three.
C6_Recommendation ==
    value # <<>> =>
        /\ value.out.recommendation \in {"OVER", "UNDER", "NO BET"}
        /\ value.out.recommendation = "OVER" <=> args.total > args.line + 20
        /\ value.out.recommendation = "UNDER" <=> args.total < args.line - 20
        /\ value.out.recommendation = "NO BET" <=>
               (args.total <= args.line + 20 /\ args.total >= args.line - 20)

C6_Witness ==
    /\ value # <<>>
    /\ value.fn = "analyzeTGL"
    /\ args.total = args.line + 20
    /\ value.out.recommendation = "NO BET"

ValueDiff == args.bookie - args.fair

\* C7: valueDiff > 0.30 gives BTTS YES rated STRONG / High; 0.15 < valueDiff <=
\* 0.30 gives BTTS YES rated GOOD / Medium; 0.05 < valueDiff <= 0.15 gives BTTS
\* YES rated SLIGHT / Low; valueDiff < -0.20 gives the BTTS NO recommendation;
\* every other valueDiff gives NO BET / NO CLEAR VALUE.
C7_ValueTiers ==
    value # <<>> =>
        /\ ValueDiff > 30 =>
               /\ value.out[1] = "BET BTTS YES"
               /\ value.out[2] = "STRONG VALUE" /\ value.out[3] = "High"
        /\ (15 < ValueDiff /\ ValueDiff <= 30) =>
               /\ value.out[1] = "BET BTTS YES"
               /\ value.out[2] = "GOOD VALUE" /\ value.out[3] = "Medium"
        /\ (5 < ValueDiff /\ ValueDiff <= 15) =>
               /\ value.out[1] = "BET BTTS YES"
               /\ value.out[2] = "SLIGHT VALUE" /\ value.out[3] = "Low"
        /\ ValueDiff < -20 => value.out[1] \in {"CONSIDER BTTS NO", "BET BTTS NO"}
        /\ (-20 <= ValueDiff /\ ValueDiff <= 5) =>
               value.out[1] = "NO BET" /\ value.out[2] = "NO CLEAR VALUE"

\* the adjustment expression of a scoreline, in millionths
TauMillionths ==
    IF args.homeGoals > 1 \/ args.awayGoals > 1 THEN 1000000
    ELSE IF args.homeGoals = 0 /\ args.awayGoals = 0
         THEN 1000000 - args.lambdaHome * args.lambdaAway * args.rho
    ELSE IF args.homeGoals = 0 /\ args.awayGoals = 1 THEN 1000000 + 100 * args.lambdaHome * args.rho
    ELSE IF args.homeGoals = 1 /\ args.awayGoals = 0 THEN 1000000 + 100 * args.lambdaAway * args.rho
    ELSE 1000000 - 10000 * args.rho

\* C8: dixonColesAdjustment returns exactly 1 - lambda_home*lambda_away*rho at
\* (0,0), 1 + lambda_home*rho at (0,1), 1 + lambda_away*rho at (1,0) and 1 - rho
\* at (1,1), also when that expression is 0, and 1 when h > 1 or a > 1.
C8_Adjustment ==
    value # <<>> => value.out = Dec(TauMillionths, -6)

\* the model blocks a grid call returned
Blocks == {value.out[m] : m \in DOMAIN value.out}

IsProbability(x) == IsFinite(x) /\ Ge(x, Zero) /\ Le(x, One)

WellFormed(block) ==
    /\ \A h \in Goals, a \in Goals : IsProbability(block.matrix[h][a].prob)
    /\ IsFinite(block.homeWinProb) /\ Ge(block.homeWinProb, Zero)
    /\ IsFinite(block.drawProb) /\ Ge(block.drawProb, Zero)
    /\ IsFinite(block.awayWinProb) /\ Ge(block.awayWinProb, Zero)
    /\ Le(Add(Add(block.homeWinProb, block.drawProb), block.awayWinProb), One)

Taus ==
    {1000000 - args.lambdaHome * args.lambdaAway * args.rho,
     1000000 + 100 * args.lambdaHome * args.rho,
     1000000 + 100 * args.lambdaAway * args.rho,
     1000000 - 10000 * args.rho}

PoissonBlock ==
    IF "poisson" \in DOMAIN value.out THEN value.out.poisson
    ELSE modelBlock(poissonMatrixOf(Hundredths(args.lambdaHome), Hundredths(args.lambdaAway)))

\* C10: when rho = 0, the Dixon-Coles matrix equals the independent-Poisson
\* matrix cell by cell for every lambda_home and lambda_away, and the two
\* models' homeWinProb, drawProb and awayWinProb are equal.
C10_RhoZeroIsPoisson ==
    (value # <<>> /\ args.rho = 0) =>
        /\ \A h \in Goals, a \in Goals :
               value.out.dixonColes.matrix[h][a].prob = PoissonBlock.matrix[h][a].prob
        /\ value.out.dixonColes.homeWinProb = PoissonBlock.homeWinProb
        /\ value.out.dixonColes.drawProb = PoissonBlock.drawProb
        /\ value.out.dixonColes.awayWinProb = PoissonBlock.awayWinProb

C10_Witness ==
    /\ value # <<>>
    /\ value.fn = "grids_biv"
    /\ args.rho = 0 /\ args.lambdaHome = 150 /\ args.lambdaAway = 10
    /\ value.out.dixonColes.matrix[1][1].prob = value.out.poisson.matrix[1][1].prob
    /\ Gt(value.out.dixonColes.homeWinProb, value.out.dixonColes.awayWinProb)

\* the smaller of two goal counts
MinGoals == IF args.homeGoals < args.awayGoals THEN args.homeGoals ELSE args.awayGoals

\* C11: for every scoreline (h,a) and every lambda1, lambda2 > 0,
\* bivariatePoissonProbability(h, a, lambda1, lambda2, 0) equals
\* poisson(h, lambda1) * poisson(a, lambda2): every term of the sum with k >= 1
\* contributes 0 and the k = 0 term is the independent product.
C11_NoSharedComponent ==
    (value # <<>> /\ args.lambda3 = 0) =>
        /\ value.out = Mul(poisson(args.homeGoals, Hundredths(args.lambda1)),
                           poisson(args.awayGoals, Hundredths(args.lambda2)))
        /\ \A k \in 1..MinGoals :
               bivariateTerm(k, args.homeGoals, args.awayGoals,
                             Hundredths(args.lambda1), Hundredths(args.lambda2), Zero) = Zero
        /\ bivariateTerm(0, args.homeGoals, args.awayGoals,
                         Hundredths(args.lambda1), Hundredths(args.lambda2), Zero) = value.out

C11_Witness ==
    /\ value # <<>>
    /\ args.lambda3 = 0 /\ args.homeGoals = 2 /\ args.awayGoals = 3
    /\ args.lambda1 = 150 /\ args.lambda2 = 250
    /\ Gt(value.out, Zero)

EqualRates == value # <<>> /\ args.lambdaHome = args.lambdaAway

SymmetricGrid ==
    \A h \in Goals, a \in Goals :
        value.out.dixonColes.matrix[h][a].prob = value.out.dixonColes.matrix[a][h].prob

DrawBoosted ==
    args.rho < 0 => Gt(value.out.dixonColes.drawProb, PoissonBlock.drawProb)

\* C12 as the specification states it: when lambda_home = lambda_away the
\* Dixon-Coles grid is symmetric, so homeWinProb equals awayWinProb, and for
\* rho < 0 the Dixon-Coles drawProb is strictly greater than the Poisson drawProb.
C12_Original ==
    EqualRates =>
        /\ SymmetricGrid
        /\ value.out.dixonColes.homeWinProb = value.out.dixonColes.awayWinProb
        /\ DrawBoosted

\* the rounding the two accumulators may differ by
SumTolerance == Dec(1, -5)

\* C12: when lambda_home = lambda_away the Dixon-Coles grid is symmetric cell by
\* cell, homeWinProb and awayWinProb agree up to the rounding of their sums
\* (the two accumulators add the mirrored cells in different orders), and for
\* rho < 0 the Dixon-Coles drawProb is strictly greater than the Poisson drawProb.
C12_SymmetricGrid ==
    EqualRates =>
        /\ SymmetricGrid
        /\ Le(Abs(Sub(value.out.dixonColes.homeWinProb, value.out.dixonColes.awayWinProb)), SumTolerance)
        /\ DrawBoosted

\* equal rates of 2.0 with the default rho: mirrored cells equal, sums apart
C12_Witness ==
    /\ EqualRates
    /\ args.lambdaHome = 200 /\ args.rho = -13
    /\ value.out.dixonColes.matrix[0][1].prob = value.out.dixonColes.matrix[1][0].prob
    /\ value.out.dixonColes.homeWinProb # value.out.dixonColes.awayWinProb
    /\ Gt(value.out.dixonColes.drawProb, PoissonBlock.drawProb)

\* goals per game over the league average, 0 when nothing was played or the
\* average is 0
PerGameOverAverage(goals, games, avg) ==
    IF games = 0 \/ avg = Zero THEN Zero ELSE Div(Div(FromInt(goals), FromInt(games)), avg)

HomeAttack == PerGameOverAverage(args.homeTeam.home_goals_for, args.homeTeam.home_games_played,
                                 args.leagueData.avg_home_goals)
AwayAttack == PerGameOverAverage(args.awayTeam.away_goals_for, args.awayTeam.away_games_played,
                                 args.leagueData.avg_away_goals)
HomeDefence == PerGameOverAverage(args.homeTeam.home_goals_against, args.homeTeam.home_games_played,
                                  args.leagueData.avg_away_goals)
AwayDefence == PerGameOverAverage(args.awayTeam.away_goals_against, args.awayTeam.away_games_played,
                                  args.leagueData.avg_home_goals)
HomeProduct == Mul(Mul(HomeAttack, AwayDefence), args.leagueData.avg_home_goals)
AwayProduct == Mul(Mul(AwayAttack, HomeDefence), args.leagueData.avg_away_goals)

ExpectedGoalsReturned ==
    value # <<>> /\ value.fn \in {"expectedGoals", "expectedGoals_biv", "calculatePrediction"}

BothAverage == HomeAttack = One /\ AwayAttack = One /\ HomeDefence = One /\ AwayDefence = One

AnalysedNoHistory ==
    /\ value # <<>>
    /\ \/ value.fn \in {"analyzeTeamForm_absent", "analyzeTeamForm_early_absent"}
       \/ value.fn \in {"analyzeTeamForm", "analyzeTeamForm_early"} /\ args = <<>>

\* C14: analyzeTeamForm applied to an empty (or absent) match history returns
\* formModifier = 1.0, trend = 'neutral' and predictedGD = 0, without error.
C14_EmptyHistory ==
    AnalysedNoHistory =>
        /\ value.out.formModifier = One
        /\ value.out.trend = "neutral"
        /\ "predictedGD" \in DOMAIN value.out
        /\ value.out.predictedGD = Zero

\* the sign of (goal-difference slope - q/100), the slope being 0 when the
\* match numbers are all equal
GdSlopeAbove(q) == SlopeDen # 0 /\ 100 * SlopeNum(GoalDiffs) > q * SlopeDen
GdSlopeBelow(q) == SlopeDen # 0 /\ 100 * SlopeNum(GoalDiffs) < q * SlopeDen

\* C15: for every non-empty match history, trend is 'improving' exactly when
\* the goal-difference regression slope is > 0.25, 'declining' exactly when it
\* is < -0.25, and 'neutral' otherwise, so slopes of exactly 0.25 and exactly
\* -0.25 are 'neutral'.
C15_Trend ==
    AnalysedHistory =>
        /\ value.out.trend \in {"improving", "declining", "neutral"}
        /\ value.out.trend = "improving" <=> GdSlopeAbove(25)
        /\ value.out.trend = "declining" <=> GdSlopeBelow(-25)

\* C16: the strength ratio (goalsFor / gamesPlayed) / leagueAvg is exactly 0
\* whenever gamesPlayed = 0, for every goalsFor and every leagueAvg, instead of
\* an error or a non-finite value; in particular strength(0, 0, anyAvg) = 0.
C16_NoGamesNoStrength ==
    (value # <<>> /\ value.fn = "strengths") =>
        /\ args.homeTeam.home_games_played = 0 =>
               value.out.homeAttackStr = Zero /\ value.out.homeDefenseStr = Zero
        /\ args.awayTeam.away_games_played = 0 =>
               value.out.awayAttackStr = Zero /\ value.out.awayDefenseStr = Zero

\* goals recorded without any game played, against a team with games
C16_Witness ==
    /\ value # <<>> /\ value.fn = "strengths"
    /\ args.homeTeam = TeamRow(5, 3, 0, 2, 4, 0)
    /\ args.awayTeam = TeamRow(25, 5, 10, 20, 8, 10)
    /\ args.leagueData.avg_home_goals = Dec(15, -1)
    /\ value.out.homeAttackStr = Zero
    /\ Gt(value.out.awayAttackStr, One)

\* totals and league totals in hundredths
TotalExpected == args.homeExpGoals + args.awayExpGoals
LeagueAvgTotal == args.leagueAvgHome + args.leagueAvgAway
MinInt(a, b) == IF a < b THEN a ELSE b

\* the estimate, in ten-thousandths
Estimate ==
    IF 10 * TotalExpected > 12 * LeagueAvgTotal
    THEN MinInt(1500, MinInt(8 * args.homeExpGoals, 8 * args.awayExpGoals))
    ELSE IF 10 * TotalExpected < 8 * LeagueAvgTotal THEN -500
    ELSE 1000

\* C17: when lambda3 is not supplied, the estimate is min(0.15, 0.08*lambda_home,
\* 0.08*lambda_away) exactly when lambda_home + lambda_away > 1.2 * league total,
\* -0.05 exactly when it is < 0.8 * league total, and 0.10 in every other case,
\* the two boundaries included; a supplied lambda3 (0 included) is used
\* unchanged and the estimator is not consulted.
C17_Lambda3 ==
    value # <<>> =>
        /\ value.fn = "estimateLambda3" => value.out = Dec(Estimate, -4)
        /\ value.fn = "callsOf" =>
               IF args.lambda3 = Undefined
               THEN /\ value.out.lambda3 = Dec(Estimate, -4)
                    /\ value.out.estimator = <<Hundredths(args.homeExpGoals), Hundredths(args.awayExpGoals)>>
               ELSE /\ value.out.lambda3 = args.lambda3
                    /\ value.out.estimator = <<>>

\* a total exactly 1.2 times the league total: 2.00 + 1.24 against 2.70
C17_Witness ==
    /\ value # <<>> /\ value.fn = "callsOf"
    /\ args.lambda3 = Undefined
    /\ TotalExpected = 324 /\ LeagueAvgTotal = 270
    /\ value.out.lambda3 = Dec(10, -2)

\* the probability of every total 0..15 for the rates of the call
ProbTotal ==
    probTotals(maxGoals, poissonTable(maxGoals, Hundredths(args.homeExpGoals)),
               poissonTable(maxGoals, Hundredths(args.awayExpGoals)))

TotalsOver == {total \in 0..maxGoals : 100 * total > args.line}
TotalsUnder == (0..maxGoals) \ TotalsOver

\* the mass of the totals of S, added in ascending order
RECURSIVE MassOf(_, _, _)
MassOf(S, probTotal, last) ==
    IF last < 0 THEN Zero
    ELSE Bind(MassOf(S, probTotal, last - 1), LAMBDA below :
              IF last \in S THEN Add(below, probTotal[last + 1]) ELSE below)

FairOdds(prob) == IF prob = Zero THEN Null ELSE ToFixed(Div(One, prob), 2)

\* C18: every total 0..15 adds its probability to overProb when total > line
\* and to underProb otherwise, a total equal to an integer line counting as
\* under; impliedOverOdds is null exactly when overProb is 0 (every line >= 15),
\* impliedUnderOdds is null exactly when underProb is 0 (every line < 0), and
\* each is 1/prob, to the two decimals of the result, otherwise.
C18_OverUnder ==
    (value # <<>> /\ value.fn = "calculateGoalLineProbabilities") =>
        Bind(ProbTotal, LAMBDA probTotal :
        Bind(<<MassOf(TotalsOver, probTotal, maxGoals), MassOf(TotalsUnder, probTotal, maxGoals)>>, LAMBDA mass :
            /\ value.out.overProbability = ToFixed(Mul(mass[1], FromInt(100)), 2)
            /\ value.out.underProbability = ToFixed(Mul(mass[2], FromInt(100)), 2)
            /\ value.out.impliedOverOdds = FairOdds(mass[1])
            /\ value.out.impliedUnderOdds = FairOdds(mass[2])
            /\ mass[1] = Zero <=> args.line >= 100 * maxGoals
            /\ mass[2] = Zero <=> args.line < 0
            /\ value.out.impliedOverOdds = Null <=> mass[1] = Zero
            /\ value.out.impliedUnderOdds = Null <=> mass[2] = Zero))

\* the line on the last total: that total counts as under and nothing is over
C18_Witness ==
    /\ value # <<>> /\ value.fn = "calculateGoalLineProbabilities"
    /\ args.line = 100 * maxGoals
    /\ value.out.impliedOverOdds = Null
    /\ value.out.overProbability = Zero
    /\ value.out.impliedUnderOdds = One

ModelBlocks == {"poisson", "dixonColes", "bivariatePoisson"}

\* C19: every successful predict result carries the three model blocks poisson,
\* dixonColes and bivariatePoisson, and its flat keys homeWinProb, drawProb,
\* awayWinProb and matrix hold the values of the dixonColes block.
C19_FlatKeysAreDixonColes ==
    (Predicted /\ response.status = 200) =>
        /\ ModelBlocks \subseteq DOMAIN response.body
        /\ response.body.homeWinProb = response.body.dixonColes.homeWinProb
        /\ response.body.drawProb = response.body.dixonColes.drawProb
        /\ response.body.awayWinProb = response.body.dixonColes.awayWinProb
        /\ response.body.matrix = response.body.dixonColes.matrix

\* the response to a predict request that runs alone over the stored data
Alone(payload) ==
    IF ~Found(payload) THEN failed("predict", "Invalid selection - Data not found")
    ELSE ok("predict", predictOutcome(leagues[payload.leagueId], teams[payload.homeTeamId],
                                      teams[payload.awayTeamId],
                                      SortByMatchNumber(matchHistory[payload.homeTeamId]),
                                      SortByMatchNumber(matchHistory[payload.awayTeamId]), payload).body)

Completes(r) == requests[r].pc # "done" /\ requests'[r].pc = "done"

\* C20: no step of predict writes to the leagues, teams or match history, and
\* in every interleaving of concurrent predict requests over unchanged stored
\* data each request returns what it would return alone, so that requests with
\* identical payloads return identical results.
C20_PredictIsIsolated ==
    [][/\ UNCHANGED <<leagues, teams, matchHistory>>
       /\ \A r \in RequestIds :
              Completes(r) => requests'[r].response = Alone(requests[r].payload)
       /\ \A r \in RequestIds, other \in RequestIds :
              (/\ Completes(r)
               /\ requests[other].pc = "done"
               /\ requests[other].payload = requests[r].payload)
                  => requests'[r].response = requests[other].response]_vars

\* a request has completed successfully while another request with the same
\* payload stands between its reads
C20_Witness ==
    /\ requests[1].pc = "done"
    /\ requests[1].response.status = 200
    /\ requests[2].pc = "homeHistory"
    /\ requests[2].payload = requests[1].payload
    /\ matchHistory[1] # <<>>

\* the rates of the kernel invocations of one prediction: the grid, the
\* goal-line convolution, and the three terms of the bivariate sum
KernelRates ==
    {calls.handed.grid[i] : i \in 1..2} \cup {calls.handed.goalLineAnalyzer[i] : i \in 1..2}
    \cup {residualRates(calls.handed.btts[1], calls.handed.btts[2], calls.handed.lambda3)[i] : i \in 1..3}

\* C21: every invocation of the Poisson kernel made during a prediction, from
\* the grid, the goal-line convolution and the bivariate sum (lambda1*, lambda2*
\* and lambda3_safe), has a rate strictly greater than 0.
C21_KernelRatesPositive ==
    Predicted => \A rate \in KernelRates : Gt(rate, Zero)

SamplePoints == DOMAIN args.xValues
IdenticalXs == \A i \in SamplePoints, j \in SamplePoints : args.xValues[i] = args.xValues[j]

\* the sample lies on y = (m / 2) * x + c / 2
OnLine(m, c) == \A i \in SamplePoints : 2 * args.yValues[i] = m * args.xValues[i] + c

HalfSlopes == -12..12
HalfIntercepts == -40..40

\* C22: on a non-empty sample whose x values are all identical linearRegression
\* returns slope 0 and intercept mean(y), nothing non-finite; on a sample with
\* two distinct x values lying exactly on y = m*x + c it returns slope m and
\* intercept c.
C22_Regression ==
    value # <<>> =>
        /\ IdenticalXs =>
               /\ value.out.slope = Zero
               /\ value.out.intercept = Div(FromInt(SumInt(args.yValues)), FromInt(Len(args.yValues)))
               /\ IsFinite(value.out.r2)
        /\ ~IdenticalXs =>
               \A m \in HalfSlopes, c \in HalfIntercepts :
                   OnLine(m, c) => /\ value.out.slope = Dec(5 * m, -1)
                                   /\ value.out.intercept = Dec(5 * c, -1)

LastMatchNumber == CHOOSE x \in {Xs[i] : i \in DOMAIN Xs} : \A i \in DOMAIN Xs : Xs[i] <= x

\* predictedGD is the goal-difference regression line at x, to the nearest
\* hundredth: the line through the sample is
\* (SlopeNum * (n*x - sumX) + sumY * SlopeDen) / (n * SlopeDen) at x
IsLineAt(x) ==
    LET n == Len(args)
    IN  IF SlopeDen = 0
        THEN 2 * AbsInt(Scaled(value.out.predictedGD, 2) * n - 100 * SumInt(GoalDiffs)) <= n
        ELSE 2 * AbsInt(Scaled(value.out.predictedGD, 2) * n * SlopeDen
                        - 100 * (SlopeNum(GoalDiffs) * (n * x - SumInt(Xs)) + SumInt(GoalDiffs) * SlopeDen))
                 <= n * SlopeDen

\* C23: for every non-empty history predictedGD is the goal-difference
\* regression line at x = (largest matchNumber of the history) + 1, whatever
\* ascending integers the match numbers are.
C23_PredictedGD ==
    (AnalysedHistory /\ value.fn = "analyzeTeamForm") => IsLineAt(LastMatchNumber + 1)

\* the expected goals before the adjustment: attack strength, scaled by the
\* form modifier, times the opponent's defence strength times the league average
BaseHome ==
    Mul(Mul(Mul(HomeAttack, value.out.homeForm.formModifier), AwayDefence), args.leagueData.avg_home_goals)
BaseAway ==
    Mul(Mul(Mul(AwayAttack, value.out.awayForm.formModifier), HomeDefence), args.leagueData.avg_away_goals)

\* predictedGD of the two forms, in hundredths
PredictedGDs == <<Scaled(value.out.homeForm.predictedGD, 2), Scaled(value.out.awayForm.predictedGD, 2)>>

Unclamped == Gt(value.out.eg.homeExpGoals, floor) /\ Gt(value.out.eg.awayExpGoals, floor)

SmallerMarginal == IF args.lambda1 < args.lambda2 THEN args.lambda1 ELSE args.lambda2

\* C25: for every lambda3 and every lambda_home, lambda_away >= 0 the covariance
\* used satisfies 0 <= lambda3_safe <= min(lambda_home, lambda_away), and the
\* residual rates lambda_home - lambda3_safe and lambda_away - lambda3_safe are
\* both >= 0.
C25_ResidualRates ==
    (value # <<>> /\ value.fn = "residualRates") =>
        /\ 0 <= Scaled(value.out[3], 2) /\ Scaled(value.out[3], 2) <= SmallerMarginal
        /\ Scaled(value.out[1], 2) = args.lambda1 - Scaled(value.out[3], 2)
        /\ Scaled(value.out[2], 2) = args.lambda2 - Scaled(value.out[3], 2)
        /\ Scaled(value.out[1], 2) >= 0 /\ Scaled(value.out[2], 2) >= 0

\* a covariance larger than both marginals is cut to the smaller one
C25_Witness ==
    /\ value # <<>> /\ value.fn = "residualRates"
    /\ args.lambda3 = 300 /\ args.lambda1 = 150 /\ args.lambda2 = 250
    /\ value.out = <<Zero, One, Dec(15, -1)>>

NoCovariance ==
    /\ value # <<>> /\ args.lambda3 <= 0
    /\ residualRates(Hundredths(args.lambdaHome), Hundredths(args.lambdaAway), Hundredths(args.lambda3))[3] = Zero

CollapsedGrid ==
    /\ value.out.bivariatePoisson.matrix = value.out.poisson.matrix
    /\ value.out.bivariatePoisson.homeWinProb = value.out.poisson.homeWinProb
    /\ value.out.bivariatePoisson.drawProb = value.out.poisson.drawProb
    /\ value.out.bivariatePoisson.awayWinProb = value.out.poisson.awayWinProb

PercentStep == Dec(1, -2)

Scorelines == [i \in 1..(matrixSize * matrixSize) |-> <<(i - 1) \div matrixSize, (i - 1) % matrixSize>>]

HomeWins(c) == c[1] > c[2]
Draws(c) == c[1] = c[2]
AwayWins(c) == c[1] < c[2]

\* the sum of the cells of a list of scorelines, in the order of the list
CellSum(block, cells) == SumNum([i \in 1..Len(cells) |-> block.matrix[cells[i][1]][cells[i][2]].prob])

GridOf(block) ==
    /\ DOMAIN block.matrix = Goals
    /\ \A h \in Goals :
           /\ DOMAIN block.matrix[h] = Goals
           /\ \A a \in Goals : block.matrix[h][a].h = h /\ block.matrix[h][a].a = a

\* the rounding that 36 additions in two different orders may differ by
GridTolerance == Dec(1, -4)

Partitioned(block) ==
    /\ block.homeWinProb = CellSum(block, SelectSeq(Scorelines, HomeWins))
    /\ block.drawProb = CellSum(block, SelectSeq(Scorelines, Draws))
    /\ block.awayWinProb = CellSum(block, SelectSeq(Scorelines, AwayWins))
    /\ Len(SelectSeq(Scorelines, HomeWins)) + Len(SelectSeq(Scorelines, Draws))
           + Len(SelectSeq(Scorelines, AwayWins)) = matrixSize * matrixSize
    /\ Le(Abs(Sub(Add(Add(block.homeWinProb, block.drawProb), block.awayWinProb), CellSum(block, Scorelines))),
          GridTolerance)

\* C27: each of the 36 cells (h,a), 0 <= h,a <= 5, is added to exactly one
\* accumulator - homeWinProb when h > a, drawProb when h = a, awayWinProb when
\* h < a - so the three add up to the sum of all cells of the matrix, and the
\* matrix has 6 rows of 6 cells with cell [h][a] labelled (h,a).
C27_GridPartition ==
    value # <<>> => \A block \in Blocks : GridOf(block) /\ Partitioned(block)

\* three grids of one call with unequal rates: each outcome has its own mass
C27_Witness ==
    /\ value # <<>> /\ value.fn = "grids_biv"
    /\ args.lambdaHome = 200 /\ args.lambdaAway = 150 /\ args.rho = -13 /\ args.lambda3 = 10
    /\ \A block \in Blocks : Gt(block.homeWinProb, block.awayWinProb) /\ Gt(block.drawProb, Zero)

Orders(n) == {p \in [1..n -> 1..n] : \A i \in 1..n, j \in 1..n : p[i] = p[j] => i = j}

Reordered(history, p) == [i \in 1..Len(history) |-> history[p[i]]]

OrderFreeKeys ==
    {"slope", "gdSlope", "gdIntercept", "predictedGD", "trend", "formModifier",
     "avgGoalsScored", "avgGoalsConceded", "avgPoints"}

SameForm(f, g) == \A k \in OrderFreeKeys : f[k] = g[k]

\* C28: analyzeTeamForm returns the same slope, gdSlope, gdIntercept,
\* predictedGD, trend, formModifier and averages for every permutation of the
\* same history entries, and leaves the sequence it was given as it was.
C28_OrderInsensitive ==
    [][(value' # <<>> /\ value'.fn = "analyzeTeamForm" /\ args # <<>>) =>
           /\ args' = args
           /\ \A p \in Orders(Len(args)) :
                  SameForm(analyzeTeamForm(Reordered(args, p)), value'.out)]_vars

\* a history given out of order, with a rising goal difference
C28_Witness ==
    /\ AnalysedHistory /\ value.fn = "analyzeTeamForm"
    /\ Len(args) = 3
    /\ args[1].match_number = 3 /\ args[2].match_number = 1 /\ args[3].match_number = 2
    /\ value.out.trend = "improving"
    /\ value.out.matchData[1].matchNumber = 1

\* C29: in what analyzeTeamForm returns, trend "neutral" goes with formModifier
\* 1.0, "improving" with 1.10 <= formModifier <= 1.20, "declining" with
\* 0.80 <= formModifier <= 0.90, and formModifier is never strictly between
\* 0.90 and 1.10 other than 1.0.
C29_TrendBands ==
    (value # <<>> /\ value.fn = "analyzeTeamForm") =>
        /\ value.out.trend \in {"neutral", "improving", "declining"}
        /\ value.out.trend = "neutral" => formModifierThousandths = 1000
        /\ value.out.trend = "improving" => formModifierThousandths \in 1100..1200
        /\ value.out.trend = "declining" => formModifierThousandths \in 800..900
        /\ formModifierThousandths \in 901..1099 => formModifierThousandths = 1000

\* a declining team whose modifier lies inside its band, not on the clamp
C29_Witness ==
    /\ AnalysedHistory /\ value.fn = "analyzeTeamForm"
    /\ value.out.trend = "declining"
    /\ formModifierThousandths \in 801..899

\* no saveMatchHistory request is between its invocation and its result
Quiescent == \A r \in RequestIds : requests[r].pc \in {"idle", "done"}

\* the match lists a team's history may be: the one stored at the start, or
\* the one some single request carried
SingleLists(t) == {h[t] : h \in StoredHistories} \cup {p.matches : p \in SavePayloads}

\* C30: after any sequence or interleaving of saveMatchHistory requests, the
\* stored history of a team is exactly the match list of one single request,
\* never a union or duplication of the rows of several.
C30_SaveReplaces ==
    Quiescent => \A t \in TeamIds : matchHistory[t] \in SingleLists(t)

\* the other half of C30: a step changes the history of no team but the one
\* the request names
C30_OtherTeamsUntouched ==
    [][\A t \in TeamIds :
          matchHistory'[t] # matchHistory[t] =>
              \E r \in RequestIds : requests[r].pc \in {"delete", "insert"}
                                    /\ requests[r].payload.teamId = t
                                    /\ requests'[r] # requests[r]]_vars

====
